---- MODULE Spec2Model ----
(***************************************************************************)
(* State-machine model of the kriya web-automation library:                *)
(*   - FormRegistry   (src/src/forms/FormRegistry.ts)                      *)
(*   - ActionExecutor (src/src/actions/ActionExecutor.ts)                  *)
(*   - AutomationEngine (src/src/types/index.ts, lines 254-518)            *)
(* Two specifications share the variables: Spec drives the registry,       *)
(* EngineSpec drives executeAction / executeActions.                       *)
(***************************************************************************)
EXTENDS Integers, Sequences, FiniteSets, TLC

\* ------------------------------------------------------------------ bounds
\* capacity of the catalogue (DEFAULT_FORM_REGISTRY_CONFIG.maxForms, scaled)
maxForms == 2
\* most callbacks kept per event type
MaxListeners == 2
\* longest batch handed to executeActions
MaxBatch == 2
\* most mutation records queued before the observer callback runs
MaxRecords == 2
\* the debounce window of _debouncedRedetection (300 ms), in clock ticks
DebounceWindow == 2

\* ------------------------------------------------------------ the page
\* form elements that exist (in or out of the document)
Elements == {"e1", "e2"}

\* id / name attributes of each form element (e2 has neither)
ElemId == [e \in Elements |-> IF e = "e1" THEN "f1" ELSE ""]
ElemName == [e \in Elements |-> ""]

\* the input/textarea/select controls of each form element, in DOM order
Controls ==
  [e \in Elements |->
     IF e = "e1"
     THEN << [name |-> "email", id |-> "",      type |-> "text"],
             [name |-> "email", id |-> "",      type |-> "text"],
             [name |-> "phone", id |-> "",      type |-> "hidden"] >>
     ELSE << [name |-> "email", id |-> "",      type |-> "text"],
             [name |-> "phone", id |-> "",      type |-> "text"],
             [name |-> "",      id |-> "email", type |-> "text"] >> ]

ControlSlots == {<<e, i>> : e \in Elements, i \in 1..3}

\* values a caller may supply; "" is the value of an untouched control
Values == {"x"}

\* keys a caller may supply; one contains a double quote, which makes the
\* attribute selector [name="..."] syntactically invalid
Keys == {"email", "phone", "q\"uote", "city"}
BadSelectorKeys == {"q\"uote"}

\* ids a caller may register under
FormIds == {"f1", "f2"}

\* the pages the registry may be constructed on (forms in DOM order)
Documents == { <<>>, <<"e2", "e1">> }

\* form elements the form library claims, and those it yields an API for
LibCompatible == {"e1", "e2"}
LibHasAPI == {"e2"}

DEFAULT_FORM_REGISTRY_CONFIG ==
  [autoDetect |-> TRUE, maxForms |-> maxForms,
   includeHiddenFields |-> FALSE, trackFormChanges |-> TRUE]

EventTypes == {"form_registered", "form_unregistered", "form_filled",
               "form_submitted", "action_started", "action_completed",
               "action_failed", "screenshot_taken"}

NoError == "NONE"

VARIABLES
  initialized,      \* FormRegistry._initialized
  forms,            \* FormRegistry._forms        : ordered map id -> api kind
  formElements,     \* FormRegistry._formElements : ordered map id -> element
  formLibrary,      \* FormRegistry._formLibrary  : "null" or "lib"
  addEventListener, \* FormRegistry.addEventListener is set (not null)
  eventListeners,   \* AutomationEngine._eventListeners : event -> callbacks
  document,         \* form elements of the page, in DOM order
  value,            \* value of every control
  ret,              \* outcome of the last registry call
  engInitialized,   \* AutomationEngine._initialized
  config,           \* AutomationEngine._config (debugMode, screenshotOnError)
  call,             \* the public call in flight: kind and commands
  pc,               \* where that call stands
  idx,              \* index of the command being executed
  results,          \* ExecutionResults returned so far (executeActions' list)
  thrown,           \* the error the call rejected with, if it did
  promise,          \* per command: state of the _withTimeout promise
  operation,        \* per command: the underlying operation: running / how it ended
  timer,            \* per command: state of the setTimeout of _withTimeout
  caught,           \* error caught by ActionExecutor.executeAction
  execResult,       \* per command: result built by ActionExecutor.executeAction
  dispatched,       \* operations handed to DOMActions / registry / capture
  notified,         \* <<event, callback>> calls made by the latest emitting step
  mutationObserver, \* FormRegistry._mutationObserver is connected (not null)
  mutations,        \* mutation records queued for the observer callback
  timeoutId,        \* timeoutId of _debouncedRedetection (0 is null)
  timers,           \* per timer id: ticks left before it fires, -1 when unset
  \* --- a pure function of the page-analysis code, applied to one input
  input,            \* the arguments drawn for the function
  output            \* what it returned, NotApplied before the call

regVars == <<initialized, forms, formElements, formLibrary, addEventListener,
             eventListeners, document, value, ret>>

engVars == <<engInitialized, config, call, pc, idx, results, thrown, promise,
             operation, timer, caught, execResult, dispatched, notified>>

trkVars == <<mutationObserver, mutations, timeoutId, timers>>

fnVars == <<input, output>>

vars == <<regVars, engVars, trkVars, fnVars>>

\* ---------------------------------------------------- ordered-map helpers
Range(seq) == {seq[i] : i \in 1..Len(seq)}

RECURSIVE MapIndex(_, _, _)
MapIndex(m, k, i) ==
  IF i > Len(m) THEN 0
  ELSE IF m[i][1] = k THEN i ELSE MapIndex(m, k, i + 1)

MapHas(m, k) == MapIndex(m, k, 1) # 0
MapGet(m, k) == m[MapIndex(m, k, 1)][2]
MapKeys(m) == {m[i][1] : i \in 1..Len(m)}
MapSet_NewFirst(m, k, v) ==
  IF MapHas(m, k)
  THEN [m EXCEPT ![MapIndex(m, k, 1)] = <<k, v>>]
  ELSE << <<k, v>> >> \o m
MapSet(m, k, v) ==
  IF MapHas(m, k)
  THEN [m EXCEPT ![MapIndex(m, k, 1)] = <<k, v>>]
  ELSE Append(m, <<k, v>>)
MapDelete(m, k) ==
  LET i == MapIndex(m, k, 1)
  IN IF i = 0 THEN m
     ELSE SubSeq(m, 1, i - 1) \o SubSeq(m, i + 1, Len(m))

\* ordered field maps (Record<string,string>), keys in insertion order: every
\* subset of Keys, inserted in the order of KeyOrder, each with a value
KeyOrder == << "email", "q\"uote", "phone", "city" >>

RECURSIVE FieldMapOf(_, _, _)
FieldMapOf(keys, v, i) ==
  IF i > Len(KeyOrder) THEN <<>>
  ELSE (IF KeyOrder[i] \in keys THEN << <<KeyOrder[i], v>> >> ELSE <<>>)
       \o FieldMapOf(keys, v, i + 1)

\* "city" names no control of the page; it is supplied alone or with "email"
KeySets == SUBSET (Keys \ {"city"}) \cup {{"city"}, {"email", "city"}}

FieldMaps == {FieldMapOf(keys, v, 1) : keys \in KeySets, v \in Values}

\* ------------------------------------------------------------ event hook
\* The engine wires registry.addEventListener to its own addEventListener
\* (Set.add of a fresh no-op closure): the callback is appended.
HookListener(listeners, hooked, eventType) ==
  IF hooked
  THEN [listeners EXCEPT ![eventType] = Append(@, "noop")]
  ELSE listeners

ListenersFit(listeners) ==
  \A ev \in EventTypes : Len(listeners[ev]) <= MaxListeners

\* ------------------------------------------------------------ results
EmptyFill ==
  [success |-> FALSE, fieldsCount |-> 0, filledFields |-> <<>>,
   failedFields |-> <<>>, formId |-> ""]

Ret(op, err, formId, fields, result, contexts) ==
  [op |-> op, err |-> err, formId |-> formId, fields |-> fields,
   result |-> result, contexts |-> contexts, raised |-> {}]

\* a call that raised AutomationError(code)
Raise(op, code, formId, fields) == Ret(op, code, formId, fields, EmptyFill, <<>>)

\* ------------------------------------------------------- FormRegistry
\* mutant: the initialization guard lets every call through
EnsureInitialized_Skipped(init) == TRUE

\* _ensureInitialized: TRUE when the guard lets the call through
EnsureInitialized(init) == init

\* the API registerForm binds to an element: the library's when the library
\* claims the element and yields one, else the native one
FormApiFor(lib, el) ==
  IF lib = "lib" /\ el \in LibCompatible /\ el \in LibHasAPI
  THEN "library" ELSE "native"

\* mutant: no duplicate-id check, Map.set rebinds the id
RegisterFormResult_NoDuplicateCheck(st, init, lib, hooked, formId, el) ==
  IF ~init
  THEN [err |-> "INVALID_CONFIGURATION", st |-> st]
  ELSE IF ~MapHas(st.forms, formId)
          /\ Len(st.forms) >= DEFAULT_FORM_REGISTRY_CONFIG.maxForms
  THEN [err |-> "INVALID_CONFIGURATION", st |-> st]
  ELSE [err |-> NoError,
        st |-> [forms |-> MapSet(st.forms, formId, FormApiFor(lib, el)),
                formElements |-> MapSet(st.formElements, formId, el),
                eventListeners |->
                  HookListener(st.eventListeners, hooked, "form_registered")]]

\* mutant: no capacity check
RegisterFormResult_NoCapacityCheck(st, init, lib, hooked, formId, el) ==
  IF ~init
  THEN [err |-> "INVALID_CONFIGURATION", st |-> st]
  ELSE IF MapHas(st.forms, formId)
  THEN [err |-> "FORM_NOT_FOUND", st |-> st]
  ELSE [err |-> NoError,
        st |-> [forms |-> MapSet(st.forms, formId, FormApiFor(lib, el)),
                formElements |-> MapSet(st.formElements, formId, el),
                eventListeners |->
                  HookListener(st.eventListeners, hooked, "form_registered")]]

\* registerForm on catalogue st = [forms, formElements, eventListeners]:
\* the error raised (or NoError) and the catalogue afterwards
RegisterFormResult(st, init, lib, hooked, formId, el) ==
  IF ~EnsureInitialized(init)
  THEN [err |-> "INVALID_CONFIGURATION", st |-> st]
  ELSE IF MapHas(st.forms, formId)
  THEN [err |-> "FORM_NOT_FOUND", st |-> st]
  ELSE IF Len(st.forms) >= DEFAULT_FORM_REGISTRY_CONFIG.maxForms
  THEN [err |-> "INVALID_CONFIGURATION", st |-> st]
  ELSE [err |-> NoError,
        st |-> [forms |-> MapSet(st.forms, formId, FormApiFor(lib, el)),
                formElements |-> MapSet(st.formElements, formId, el),
                eventListeners |->
                  HookListener(st.eventListeners, hooked, "form_registered")]]

AutoIds == << "auto-detected-form-0", "auto-detected-form-1",
              "auto-detected-form-2", "auto-detected-form-3" >>

\* form.id || form.name || `auto-detected-form-${index}`
DetectedId(el, index) ==
  IF ElemId[el] # "" THEN ElemId[el]
  ELSE IF ElemName[el] # "" THEN ElemName[el]
  ELSE AutoIds[index + 1]

\* _detectAndRegisterForms: registerForm for every form of the document in
\* DOM order, registration errors swallowed
RECURSIVE DetectAndRegisterForms(_, _, _, _, _, _)
DetectAndRegisterForms(st, init, lib, hooked, doc, i) ==
  IF i > Len(doc) THEN st
  ELSE DetectAndRegisterForms(
         RegisterFormResult(st, init, lib, hooked,
                            DetectedId(doc[i], i - 1), doc[i]).st,
         init, lib, hooked, doc, i + 1)

Catalogue == [forms |-> forms, formElements |-> formElements,
              eventListeners |-> eventListeners]

\* initialize(formLibrary)
Initialize(lib) ==
  IF initialized
  THEN /\ ret' = Raise("initialize", "INVALID_CONFIGURATION", "", <<>>)
       /\ UNCHANGED <<initialized, forms, formElements, formLibrary,
                      addEventListener, eventListeners, document, value>>
  ELSE LET st == IF DEFAULT_FORM_REGISTRY_CONFIG.autoDetect
                 THEN DetectAndRegisterForms(Catalogue, TRUE, lib,
                                             addEventListener, document, 1)
                 ELSE Catalogue
       IN /\ ListenersFit(st.eventListeners)
          /\ formLibrary' = lib
          /\ initialized' = TRUE
          /\ forms' = st.forms
          /\ formElements' = st.formElements
          /\ eventListeners' = st.eventListeners
          /\ ret' = Ret("initialize", NoError, "", <<>>, EmptyFill, <<>>)
          /\ UNCHANGED <<addEventListener, document, value>>

\* registerForm(formId, formElement)
RegisterForm(formId, el) ==
  LET r == RegisterFormResult(Catalogue, initialized, formLibrary,
                              addEventListener, formId, el)
  IN /\ ListenersFit(r.st.eventListeners)
     /\ forms' = r.st.forms
     /\ formElements' = r.st.formElements
     /\ eventListeners' = r.st.eventListeners
     /\ ret' = Ret("registerForm", r.err, formId, <<>>, EmptyFill, <<>>)
     /\ UNCHANGED <<initialized, formLibrary, addEventListener, document,
                    value>>

\* unregisterForm(formId)
UnregisterForm(formId) ==
  IF ~EnsureInitialized(initialized)
  THEN /\ ret' = Raise("unregisterForm", "INVALID_CONFIGURATION", formId, <<>>)
       /\ UNCHANGED <<initialized, forms, formElements, formLibrary,
                      addEventListener, eventListeners, document, value>>
  ELSE IF ~MapHas(forms, formId)
  THEN /\ ret' = Raise("unregisterForm", "FORM_NOT_FOUND", formId, <<>>)
       /\ UNCHANGED <<initialized, forms, formElements, formLibrary,
                      addEventListener, eventListeners, document, value>>
  ELSE LET ls == HookListener(eventListeners, addEventListener,
                              "form_unregistered")
       IN /\ ListenersFit(ls)
          /\ forms' = MapDelete(forms, formId)
          /\ formElements' = MapDelete(formElements, formId)
          /\ eventListeners' = ls
          /\ ret' = Ret("unregisterForm", NoError, formId, <<>>, EmptyFill, <<>>)
          /\ UNCHANGED <<initialized, formLibrary, addEventListener,
                         document, value>>

\* ------------------------------------------------------------ form fields
\* _extractFormFields: the controls reported as fields; those with no name
\* and the hidden ones are skipped unless includeHiddenFields
RECURSIVE ExtractFormFields(_, _, _)
ExtractFormFields(val, el, i) ==
  IF i > Len(Controls[el]) THEN <<>>
  ELSE LET c == Controls[el][i]
           skip == \/ (c.name = "" /\ ~DEFAULT_FORM_REGISTRY_CONFIG.includeHiddenFields)
                   \/ (c.type = "hidden" /\ ~DEFAULT_FORM_REGISTRY_CONFIG.includeHiddenFields)
           field == [name |-> IF c.name # "" THEN c.name ELSE c.id,
                     type |-> c.type, value |-> val[<<el, i>>]]
       IN (IF skip THEN <<>> ELSE <<field>>) \o ExtractFormFields(val, el, i + 1)

FieldNames(el) ==
  LET fs == ExtractFormFields([sl \in ControlSlots |-> ""], el, 1)
  IN {fs[i].name : i \in 1..Len(fs)}

\* the overlap score _findBestFormMatch gives one form: the supplied keys
\* that are the name of some field of the form
MatchScore(el, fields) ==
  Cardinality({i \in 1..Len(fields) : fields[i][1] \in FieldNames(el)})

NoMatch == [formId |-> "", score |-> 0]

\* mutant: the first form with any overlap wins, scores are not compared
RECURSIVE FindBestFormMatch_FirstPositive(_, _, _, _)
FindBestFormMatch_FirstPositive(fe, fields, i, bestMatch) ==
  IF i > Len(fe) THEN bestMatch
  ELSE LET score == MatchScore(fe[i][2], fields)
       IN FindBestFormMatch_FirstPositive(fe, fields, i + 1,
            IF score > 0 /\ bestMatch.score = 0
            THEN [formId |-> fe[i][1], score |-> score]
            ELSE bestMatch)

\* _findBestFormMatch: scan the catalogue in insertion order, keep the first
\* form whose score is positive and strictly above the best so far
RECURSIVE FindBestFormMatch(_, _, _, _)
FindBestFormMatch(fe, fields, i, bestMatch) ==
  IF i > Len(fe) THEN bestMatch
  ELSE LET score == MatchScore(fe[i][2], fields)
       IN FindBestFormMatch(fe, fields, i + 1,
            IF score > 0 /\ (bestMatch.score = 0 \/ score > bestMatch.score)
            THEN [formId |-> fe[i][1], score |-> score]
            ELSE bestMatch)

\* formElement.querySelector(`[name="${field}"]`): index of the first control
\* of that name, 0 when there is none
RECURSIVE QueryByName(_, _, _)
QueryByName(el, field, i) ==
  IF i > Len(Controls[el]) THEN 0
  ELSE IF Controls[el][i].name = field THEN i
  ELSE QueryByName(el, field, i + 1)

\* FormAPI.change(field, value) when it does not raise: the first control of
\* that name takes the value, nothing happens when there is none
Change(val, el, field, v) ==
  LET i == QueryByName(el, field, 1)
  IN IF i = 0 THEN val ELSE [val EXCEPT ![<<el, i>>] = v]

\* the supplied keys whose change(...) may raise: the native API raises exactly
\* on a key that breaks the selector; a library API is free to reject any key
ThrowSets(api, fields) ==
  LET keys == {fields[i][1] : i \in 1..Len(fields)}
  IN IF api = "native" THEN {keys \cap BadSelectorKeys} ELSE SUBSET keys

\* mutant: the first change that raises ends the loop
RECURSIVE FillLoop_StopAtFailure(_, _, _, _, _)
FillLoop_StopAtFailure(acc, el, fields, throws, i) ==
  IF i > Len(fields) THEN acc
  ELSE LET k == fields[i][1]
           v == fields[i][2]
       IN IF k \in throws
          THEN [acc EXCEPT !.failedFields = Append(@, k)]
          ELSE FillLoop_StopAtFailure(
                 [acc EXCEPT !.filledFields = Append(@, k),
                             !.value = Change(acc.value, el, k, v)],
                 el, fields, throws, i + 1)

\* the loop of _fillFormInternal over Object.entries(fields)
RECURSIVE FillLoop(_, _, _, _, _)
FillLoop(acc, el, fields, throws, i) ==
  IF i > Len(fields) THEN acc
  ELSE LET k == fields[i][1]
           v == fields[i][2]
       IN FillLoop(
            IF k \in throws
            THEN [acc EXCEPT !.failedFields = Append(@, k)]
            ELSE [acc EXCEPT !.filledFields = Append(@, k),
                             !.value = Change(acc.value, el, k, v)],
            el, fields, throws, i + 1)

\* the FormFillResult _fillFormInternal builds after the batch
FillResult(acc, fields, formId) ==
  [success |-> Len(acc.failedFields) = 0,
   fieldsCount |-> Len(fields),
   filledFields |-> acc.filledFields,
   failedFields |-> acc.failedFields,
   formId |-> formId]

\* _fillFormInternal(formApi, fields, formId): batch(loop), result, hook.
\* A library API's batch may itself raise (before or after running the
\* updates): the outer catch turns that into EXECUTION_FAILED.
FillFormInternal(op, formId, fields) ==
  LET api == MapGet(forms, formId)
      el == MapGet(formElements, formId)
  IN \E throws \in ThrowSets(api, fields) :
       LET acc == FillLoop([filledFields |-> <<>>, failedFields |-> <<>>,
                            value |-> value], el, fields, throws, 1)
           ls == HookListener(eventListeners, addEventListener, "form_filled")
       IN \/ /\ ListenersFit(ls)
             /\ value' = acc.value
             /\ eventListeners' = ls
             /\ ret' = [Ret(op, NoError, formId, fields,
                            FillResult(acc, fields, formId), <<>>)
                          EXCEPT !.raised = throws]
          \/ /\ api = "library"
             /\ value' \in {value, acc.value}
             /\ eventListeners' = eventListeners
             /\ ret' = [Raise(op, "EXECUTION_FAILED", formId, fields)
                          EXCEPT !.raised = {"batch"}]

\* fillForm(formId, fields)
FillForm(formId, fields) ==
  /\ UNCHANGED <<initialized, forms, formElements, formLibrary,
                 addEventListener, document>>
  /\ IF ~EnsureInitialized(initialized)
     THEN /\ ret' = Raise("fillForm", "INVALID_CONFIGURATION", formId, fields)
          /\ UNCHANGED <<eventListeners, value>>
     ELSE IF ~MapHas(forms, formId)
     THEN /\ ret' = Raise("fillForm", "FORM_NOT_FOUND", formId, fields)
          /\ UNCHANGED <<eventListeners, value>>
     ELSE FillFormInternal("fillForm", formId, fields)

\* fillAnyForm(fields)
FillAnyForm(fields) ==
  /\ UNCHANGED <<initialized, forms, formElements, formLibrary,
                 addEventListener, document>>
  /\ IF ~EnsureInitialized(initialized)
     THEN /\ ret' = Raise("fillAnyForm", "INVALID_CONFIGURATION", "", fields)
          /\ UNCHANGED <<eventListeners, value>>
     ELSE IF Len(forms) = 0
     THEN /\ ret' = Raise("fillAnyForm", "FORM_NOT_FOUND", "", fields)
          /\ UNCHANGED <<eventListeners, value>>
     ELSE LET bestMatch == FindBestFormMatch(formElements, fields, 1, NoMatch)
          IN IF bestMatch.score = 0
             THEN /\ ret' = Raise("fillAnyForm", "FORM_NOT_FOUND", "", fields)
                  /\ UNCHANGED <<eventListeners, value>>
             ELSE FillFormInternal("fillAnyForm", bestMatch.formId, fields)

\* submitForm(formId): the guards, then `await formApi.submit()`, which
\* resolves, rejects, or (the native API waits for a submit event that
\* form.submit() does not fire) stays pending; the hook fires once it settles
SubmitFormCall(op, formId, outcome) ==
  /\ UNCHANGED <<initialized, forms, formElements, formLibrary,
                 addEventListener, document, value>>
  /\ IF ~EnsureInitialized(initialized)
     THEN /\ ret' = Raise(op, "INVALID_CONFIGURATION", formId, <<>>)
          /\ UNCHANGED eventListeners
     ELSE IF ~MapHas(forms, formId)
     THEN /\ ret' = Raise(op, "FORM_NOT_FOUND", formId, <<>>)
          /\ UNCHANGED eventListeners
     ELSE IF outcome = "pending"
     THEN /\ ret' = Raise(op, "PENDING", formId, <<>>)
          /\ UNCHANGED eventListeners
     ELSE LET ls == HookListener(eventListeners, addEventListener,
                                 "form_submitted")
          IN /\ ListenersFit(ls)
             /\ eventListeners' = ls
             /\ ret' = IF outcome = "resolved"
                       THEN Ret(op, NoError, formId, <<>>,
                                [EmptyFill EXCEPT !.success = TRUE,
                                                  !.formId = formId], <<>>)
                       ELSE Raise(op, "EXECUTION_FAILED", formId, <<>>)

SubmitOutcomes == {"resolved", "rejected", "pending"}

\* submitForm(formId)
SubmitForm(formId, outcome) == SubmitFormCall("submitForm", formId, outcome)

\* mutant: submitAnyForm takes the first entry out of the catalogue
SubmitAnyForm_Dequeues(outcome) ==
  /\ initialized
  /\ Len(forms) > 0
  /\ forms' = Tail(forms)
  /\ formElements' = Tail(formElements)
  /\ ret' = Raise("submitAnyForm", "EXECUTION_FAILED", forms[1][1], <<>>)
  /\ UNCHANGED <<initialized, formLibrary, addEventListener, eventListeners,
                 document, value>>

\* submitAnyForm(): the first entry of _forms
SubmitAnyForm(outcome) ==
  IF EnsureInitialized(initialized) /\ Len(forms) = 0
  THEN /\ ret' = Raise("submitAnyForm", "FORM_NOT_FOUND", "", <<>>)
       /\ UNCHANGED <<initialized, forms, formElements, formLibrary,
                      addEventListener, eventListeners, document, value>>
  ELSE SubmitFormCall("submitAnyForm",
                      IF Len(forms) = 0 THEN "" ELSE forms[1][1], outcome)

\* getFormContext(): a fresh list, one FormContext per catalogue entry
GetFormContext ==
  /\ UNCHANGED <<initialized, forms, formElements, formLibrary,
                 addEventListener, eventListeners, document, value>>
  /\ IF ~EnsureInitialized(initialized)
     THEN ret' = Raise("getFormContext", "INVALID_CONFIGURATION", "", <<>>)
     ELSE ret' = Ret("getFormContext", NoError, "", <<>>, EmptyFill,
                     [i \in 1..Len(formElements) |->
                        [formId |-> formElements[i][1],
                         fields |-> ExtractFormFields(value, formElements[i][2], 1),
                         isRegistered |-> TRUE]])

\* dispose()
Dispose ==
  /\ forms' = <<>>
  /\ formElements' = <<>>
  /\ formLibrary' = "null"
  /\ initialized' = FALSE
  /\ addEventListener' = FALSE
  /\ ret' = Ret("dispose", NoError, "", <<>>, EmptyFill, <<>>)
  /\ UNCHANGED <<eventListeners, document, value>>

\* ------------------------------------------------------ registry machine
RegInit ==
  /\ initialized = FALSE
  /\ forms = <<>>
  /\ formElements = <<>>
  /\ formLibrary = "null"
  /\ addEventListener = FALSE
  /\ eventListeners = [ev \in EventTypes |-> <<>>]
  /\ document \in Documents
  /\ value = [sl \in ControlSlots |-> ""]
  /\ ret = Ret("new", NoError, "", <<>>, EmptyFill, <<>>)

NoCall == [kind |-> "none", actions |-> <<>>]
NoResult == [success |-> FALSE, status |-> "pending", errorCode |-> NoError]
Slots == 1..MaxBatch

EngConstructed ==
  /\ engInitialized = FALSE
  /\ call = NoCall
  /\ pc = "idle"
  /\ idx = 0
  /\ results = <<>>
  /\ thrown = NoError
  /\ promise = [i \in Slots |-> "none"]
  /\ operation = [i \in Slots |-> "none"]
  /\ timer = [i \in Slots |-> "none"]
  /\ caught = NoError
  /\ execResult = [i \in Slots |-> NoResult]
  /\ dispatched = <<>>
  /\ notified = <<>>

\* ids setTimeout hands out: two are enough, one pending and one fresh
TimerIds == {1, 2}

\* the tracker fields of a constructed registry: no observer, no timer
TrkConstructed ==
  /\ mutationObserver = FALSE
  /\ mutations = <<>>
  /\ timeoutId = 0
  /\ timers = [t \in TimerIds |-> -1]

\* no function of the page analysis is under test
NotApplied == [done |-> FALSE]
Returned(v) == [done |-> TRUE, value |-> v]
FnIdle == input = NotApplied /\ output = NotApplied

Init ==
  /\ RegInit
  /\ config = [debugMode |-> FALSE, screenshotOnError |-> TRUE]
  /\ EngConstructed
  /\ TrkConstructed
  /\ FnIdle

\* the registry on its own: engine and tracker fields stay as constructed
Rest == <<engVars, trkVars, fnVars>>

Next ==
  \/ \E lib \in {"null", "lib"} : Initialize(lib) /\ UNCHANGED Rest
  \/ \E id \in FormIds, el \in Elements :
       RegisterForm(id, el) /\ UNCHANGED Rest
  \/ \E id \in FormIds : UnregisterForm(id) /\ UNCHANGED Rest
  \/ \E id \in FormIds, fields \in FieldMaps :
       FillForm(id, fields) /\ UNCHANGED Rest
  \/ \E fields \in FieldMaps : FillAnyForm(fields) /\ UNCHANGED Rest
  \/ \E id \in FormIds, outcome \in SubmitOutcomes :
       SubmitForm(id, outcome) /\ UNCHANGED Rest
  \/ \E outcome \in SubmitOutcomes : SubmitAnyForm(outcome) /\ UNCHANGED Rest
  \/ GetFormContext /\ UNCHANGED Rest
  \/ Dispose /\ UNCHANGED Rest

Spec == Init /\ [][Next]_vars

\* ============================================================ the engine
\* AutomationEngine with its ActionExecutor.  One public call
\* (executeAction / executeActions) is followed through its suspension
\* points.  Promise continuations (pc in MicroSteps) run before any timer,
\* operation completion or further public call is served.
validActionTypes ==
  {"navigate", "click", "fill", "fillForm", "submitForm", "screenshot", "wait"}

\* command types drawn as inputs; "hover" is not a valid type
ActionTypes == {"click", "wait", "fillForm", "hover"}
Batches == UNION {[1..n -> ActionTypes] : n \in 0..MaxBatch}
\* listeners a client adds: one that throws and one that returns
Callbacks == {"cbThrow", "cbOk"}
ActionEvents == {"action_started", "action_completed", "action_failed"}

Completed == [success |-> TRUE, status |-> "completed", errorCode |-> NoError]
Failed(code) == [success |-> FALSE, status |-> "failed", errorCode |-> code]

\* how an operation or a promise ended: "fulfilled" or the error's code
Ended(outcome) == IF outcome = NoError THEN "fulfilled" ELSE outcome
\* the ExecutionResult ActionExecutor.executeAction builds from it
ResultOf(ended) == IF ended = "fulfilled" THEN Completed ELSE Failed(ended)

MicroSteps == {"begin", "resume", "finish"}
Quiescent == pc \notin MicroSteps

\* the forEach of _emitEvent over the listeners ls of one event: each is
\* called in insertion order inside a try; what "cbThrow" throws is
\* swallowed, unless debug mode is on: then the catch throws, the loop
\* ends there and the error leaves _emitEvent
RECURSIVE ForEachListener(_, _, _, _)
ForEachListener(ls, debugMode, eventType, called) ==
  IF ls = <<>>
  THEN [called |-> called, threw |-> FALSE]
  ELSE IF Head(ls) = "cbThrow" /\ debugMode
  THEN [called |-> Append(called, <<eventType, Head(ls)>>), threw |-> TRUE]
  ELSE ForEachListener(Tail(ls), debugMode, eventType,
                       Append(called, <<eventType, Head(ls)>>))

\* _emitEvent that rethrows whatever the debug flag says
Emit_AlwaysRethrows(listeners, cfg, eventType) ==
  ForEachListener(listeners[eventType], TRUE, eventType, <<>>)

\* _emitEvent(eventType): the calls it makes, and whether it throws
\* EXECUTION_FAILED
Emit(listeners, cfg, eventType) ==
  ForEachListener(listeners[eventType], cfg.debugMode, eventType, <<>>)

EmitThrows(listeners, cfg, eventType) == Emit(listeners, cfg, eventType).threw

\* a promise settles once: resolve / reject of a settled promise is ignored
Settle_Overwrites(p, v) == v
Settle(p, v) == IF p = "pending" THEN v ELSE p

\* the fields a fillForm command carries, and its parameters
EngineFields == FieldMapOf({"email"}, "x", 1)
\* fields is absent, text JSON.parse rejects, the text of a JSON object, or
\* the text of a JSON number (valid JSON that denotes no object)
FillFormParameters ==
  [fieldsParam : {"missing", "malformed", "object", "number"},
   formId : {"", "f1"}]

\* what the registry iterates over: Object.entries / Object.keys of the
\* parsed fields; a number has no own properties
ParsedFields(fieldsParam) ==
  IF fieldsParam = "object" THEN EngineFields ELSE <<>>

\* _executeFillForm's parameter checks: !fieldsParam, and the catch around
\* JSON.parse
FieldsRejected(fieldsParam) == fieldsParam \in {"missing", "malformed"}

\* what DOMActions.click can do once called: complete, or throw
ClickOutcomes == {NoError, "ELEMENT_NOT_FOUND", "EXECUTION_FAILED"}

\* the parameters of a wait command: duration is absent, "0" or "50";
\* target says whether both a selector and a condition are given
WaitParameters == [duration : {"absent", "0", "50"}, target : BOOLEAN]

\* _executeWait: options.duration = parseInt(duration ?? '1000', 10)
OptionsDuration(prm) ==
  IF prm.duration = "absent" THEN 1000
  ELSE IF prm.duration = "0" THEN 0
  ELSE 50

\* DOMActions.wait(options) up to its first suspension: a truthy duration
\* sleeps on one timer; else a selector with a condition polls, returning
\* at once when the first poll finds the condition true and sleeping 100 ms
\* before the next poll otherwise; else VALIDATION_FAILED
WaitOutcomes(prm) ==
  IF OptionsDuration(prm) # 0 THEN {"sleeping"}
  ELSE IF prm.target THEN {NoError, "polling"}
  ELSE {"VALIDATION_FAILED"}

\* a suspended operation: the fixed sleep, or _waitForCondition between polls
Suspended == {"sleeping", "polling"}

\* how a suspended wait ends: the sleep returns; the polling loop returns
\* when a poll finds the condition true, or throws EXECUTION_TIMEOUT when
\* maxWait has passed
WaitSettles == {NoError, "EXECUTION_TIMEOUT"}
SettlesOf(suspended) ==
  IF suspended = "sleeping" THEN {NoError} ELSE WaitSettles

\* ---------------------------------------------------- engine: public calls
\* AutomationEngine.initialize(formLibrary)
EngineInitialize(lib) ==
  /\ Quiescent
  /\ IF engInitialized
     THEN UNCHANGED vars
     ELSE /\ Initialize(lib)
          /\ engInitialized' = TRUE
          /\ notified' = Emit(eventListeners, config, "action_started").called
          /\ UNCHANGED <<config, call, pc, idx, results, thrown, promise,
                         operation, timer, caught, execResult, dispatched>>

\* AutomationEngine.addEventListener(eventType, callback): Set.add
AddEventListener(eventType, callback) ==
  /\ Quiescent
  /\ callback \notin Range(eventListeners[eventType])
  /\ eventListeners' =
       [eventListeners EXCEPT ![eventType] = Append(@, callback)]
  /\ ListenersFit(eventListeners')
  /\ UNCHANGED <<initialized, forms, formElements, formLibrary,
                 addEventListener, document, value, ret>>
  /\ UNCHANGED engVars

\* executeAction(action) / executeActions(actions) up to the first command:
\* the _ensureInitialized guard and the empty-list return
StartCall(kind, actions) ==
  /\ pc = "idle"
  /\ call' = [kind |-> kind, actions |-> actions]
  /\ IF ~engInitialized
     THEN /\ pc' = "threw"
          /\ thrown' = "INVALID_CONFIGURATION"
          /\ idx' = idx
     ELSE IF kind = "executeActions" /\ Len(actions) = 0
     THEN /\ pc' = "returned"
          /\ UNCHANGED <<thrown, idx>>
     ELSE /\ pc' = "begin"
          /\ idx' = 1
          /\ thrown' = thrown
  /\ UNCHANGED <<engInitialized, config, results, promise, operation, timer,
                 caught, execResult, dispatched, notified>>
  /\ UNCHANGED regVars

\* ------------------------------------------------- engine: one command
\* _validateAction(action): the type must be one of the valid types
ValidateAction(type) == type \in validActionTypes

\* the call rejects: the error propagates out of executeAction, and out of
\* executeActions, whose loop has no try/catch
Reject(code) ==
  /\ pc' = "threw"
  /\ thrown' = code
  /\ UNCHANGED <<engInitialized, config, call, idx, results, promise,
                 operation, timer, caught, execResult, dispatched>>
  /\ UNCHANGED regVars

\* _withTimeout(operation, timeout): the timer is armed and operation() is
\* called.  An operation that ends without waiting for the page settles the
\* promise (and clears the timer) before any timer can fire; otherwise the
\* promise is pending, the timer armed, and the operation running.
WithTimeout(i, type, outcome, reached) ==
  /\ dispatched' = IF reached THEN Append(dispatched, type) ELSE dispatched
  /\ IF outcome \in Suspended
     THEN /\ promise' = [promise EXCEPT ![i] = "pending"]
          /\ timer' = [timer EXCEPT ![i] = "armed"]
          /\ operation' = [operation EXCEPT ![i] = outcome]
          /\ pc' = "await"
     ELSE /\ promise' = [promise EXCEPT ![i] = Ended(outcome)]
          /\ timer' = [timer EXCEPT ![i] = "cleared"]
          /\ operation' = [operation EXCEPT ![i] = Ended(outcome)]
          /\ pc' = "resume"
  /\ UNCHANGED <<engInitialized, config, call, idx, results, thrown, caught,
                 execResult>>

\* _executeFillForm(action): parameter checks, then the registry
ExecuteFillForm(i, prm) ==
  IF FieldsRejected(prm.fieldsParam)
  THEN /\ WithTimeout(i, "fillForm", "VALIDATION_FAILED", FALSE)
       /\ UNCHANGED regVars
  ELSE /\ IF prm.formId # ""
          THEN FillForm(prm.formId, ParsedFields(prm.fieldsParam))
          ELSE FillAnyForm(ParsedFields(prm.fieldsParam))
       /\ WithTimeout(i, "fillForm", ret'.err, TRUE)

\* _executeWait(action): the options, then DOMActions.wait
ExecuteWait(i, prm) ==
  /\ \E outcome \in WaitOutcomes(prm) : WithTimeout(i, "wait", outcome, TRUE)
  /\ UNCHANGED regVars

\* _executeActionInternal(action): the switch on action.type
ExecuteActionInternal(i, type) ==
  CASE type = "click" ->
         /\ \E outcome \in ClickOutcomes : WithTimeout(i, type, outcome, TRUE)
         /\ UNCHANGED regVars
    [] type = "wait" -> \E prm \in WaitParameters : ExecuteWait(i, prm)
    [] type = "fillForm" ->
         \E prm \in FillFormParameters : ExecuteFillForm(i, prm)
    [] OTHER ->
         /\ WithTimeout(i, type, "INVALID_ACTION", FALSE)
         /\ UNCHANGED regVars

\* AutomationEngine.executeAction up to its await: guard (passed in
\* StartCall), validation and the action_started event are outside the try
BeginCommand ==
  /\ pc = "begin"
  /\ LET type == call.actions[idx]
         em == Emit(eventListeners, config, "action_started")
     IN IF ~ValidateAction(type)
        THEN Reject("VALIDATION_FAILED") /\ notified' = notified
        ELSE /\ notified' = em.called
             /\ IF em.threw
                THEN Reject("EXECUTION_FAILED")
                ELSE ExecuteActionInternal(idx, type)

\* ------------------------------------------- engine: timers and the page
EngineRest == <<engInitialized, config, call, idx, results, thrown, caught,
                execResult, dispatched, notified>>

\* the then/catch of _withTimeout once the operation of command i ends:
\* clearTimeout, then resolve / reject
OperationSettles(i, outcome) ==
  /\ Quiescent
  /\ operation[i] \in Suspended
  /\ outcome \in SettlesOf(operation[i])
  /\ operation' = [operation EXCEPT ![i] = Ended(outcome)]
  /\ timer' = [timer EXCEPT ![i] = IF @ = "armed" THEN "cleared" ELSE @]
  /\ promise' = [promise EXCEPT ![i] = Settle(@, Ended(outcome))]
  /\ pc' = IF pc = "await" /\ i = idx /\ promise[i] = "pending"
           THEN "resume" ELSE pc
  /\ UNCHANGED EngineRest
  /\ UNCHANGED regVars

\* the setTimeout callback of _withTimeout: reject(EXECUTION_TIMEOUT); the
\* operation is left running
TimerFires(i) ==
  /\ Quiescent
  /\ timer[i] = "armed"
  /\ timer' = [timer EXCEPT ![i] = "fired"]
  /\ promise' = [promise EXCEPT ![i] = Settle(@, "EXECUTION_TIMEOUT")]
  /\ pc' = IF pc = "await" /\ i = idx /\ promise[i] = "pending"
           THEN "resume" ELSE pc
  /\ UNCHANGED operation
  /\ UNCHANGED EngineRest
  /\ UNCHANGED regVars

\* ActionExecutor.executeAction after its await: the success result, or the
\* catch block, which awaits a diagnostic screenshot when screenshotOnError
Resume ==
  /\ pc = "resume"
  /\ IF promise[idx] = "fulfilled"
     THEN /\ execResult' = [execResult EXCEPT ![idx] = ResultOf(promise[idx])]
          /\ pc' = "finish"
          /\ caught' = caught
     ELSE /\ caught' = promise[idx]
          /\ IF config.screenshotOnError
             THEN /\ pc' = "diag"
                  /\ execResult' = execResult
             ELSE /\ pc' = "finish"
                  /\ execResult' =
                       [execResult EXCEPT ![idx] = ResultOf(promise[idx])]
  /\ UNCHANGED <<engInitialized, config, call, idx, results, thrown, promise,
                 operation, timer, dispatched, notified>>
  /\ UNCHANGED regVars

\* the diagnostic captureScreenshot() settles: html2canvas resolved (the
\* capture then hooks a screenshot_taken listener) or rejected (swallowed);
\* nothing bounds the time it takes
DiagnosticSettles(resolved) ==
  /\ pc = "diag"
  /\ eventListeners' = HookListener(eventListeners,
                                    addEventListener /\ resolved,
                                    "screenshot_taken")
  /\ ListenersFit(eventListeners')
  /\ execResult' = [execResult EXCEPT ![idx] = Failed(caught)]
  /\ pc' = "finish"
  /\ UNCHANGED <<engInitialized, config, call, idx, results, thrown, promise,
                 operation, timer, caught, dispatched, notified>>
  /\ UNCHANGED <<initialized, forms, formElements, formLibrary,
                 addEventListener, document, value, ret>>

\* AutomationEngine.executeAction after its await: the completion event is
\* emitted inside the try, action_failed again inside the catch
EngineOutcome(listeners, cfg, r) ==
  LET first == Emit(listeners, cfg,
                    IF r.success THEN "action_completed" ELSE "action_failed")
      again == Emit(listeners, cfg, "action_failed")
  IN IF ~first.threw
     THEN [threw |-> FALSE, result |-> r, called |-> first.called]
     ELSE [threw |-> again.threw, result |-> Failed("EXECUTION_FAILED"),
           called |-> first.called \o again.called]

\* the loop of executeActions: push, break on failure in debug mode
LoopEnds(cfg, c, i, r) ==
  \/ c.kind = "executeAction"
  \/ (~r.success /\ cfg.debugMode)
  \/ i = Len(c.actions)

Finish ==
  /\ pc = "finish"
  /\ LET out == EngineOutcome(eventListeners, config, execResult[idx])
     IN /\ notified' = out.called
        /\ IF out.threw
           THEN Reject("EXECUTION_FAILED")
           ELSE /\ results' = Append(results, out.result)
                /\ IF LoopEnds(config, call, idx, out.result)
                   THEN pc' = "returned" /\ idx' = idx
                   ELSE pc' = "begin" /\ idx' = idx + 1
                /\ UNCHANGED <<engInitialized, config, call, thrown, promise,
                               operation, timer, caught, execResult,
                               dispatched>>
                /\ UNCHANGED regVars

\* ------------------------------------------------------- engine machine
EngineInit ==
  /\ initialized = FALSE
  /\ forms = <<>>
  /\ formElements = <<>>
  /\ formLibrary = "null"
  /\ addEventListener = TRUE
  /\ eventListeners = [ev \in EventTypes |-> <<>>]
  /\ document \in Documents
  /\ value = [sl \in ControlSlots |-> ""]
  /\ ret = Ret("new", NoError, "", <<>>, EmptyFill, <<>>)
  /\ config \in [debugMode : BOOLEAN, screenshotOnError : BOOLEAN]
  /\ EngConstructed
  /\ TrkConstructed
  /\ FnIdle

EngineNext ==
  \/ \E lib \in {"null", "lib"} : EngineInitialize(lib) /\ UNCHANGED <<trkVars, fnVars>>
  \/ \E ev \in ActionEvents, cb \in {"cbThrow"} :
       AddEventListener(ev, cb) /\ UNCHANGED <<trkVars, fnVars>>
  \/ \E type \in ActionTypes :
       StartCall("executeAction", <<type>>) /\ UNCHANGED <<trkVars, fnVars>>
  \/ \E actions \in Batches :
       StartCall("executeActions", actions) /\ UNCHANGED <<trkVars, fnVars>>
  \/ BeginCommand /\ UNCHANGED <<trkVars, fnVars>>
  \/ \E i \in Slots, outcome \in WaitSettles :
       OperationSettles(i, outcome) /\ UNCHANGED <<trkVars, fnVars>>
  \/ \E i \in Slots : TimerFires(i) /\ UNCHANGED <<trkVars, fnVars>>
  \/ Resume /\ UNCHANGED <<trkVars, fnVars>>
  \/ \E resolved \in BOOLEAN : DiagnosticSettles(resolved) /\ UNCHANGED <<trkVars, fnVars>>
  \/ Finish /\ UNCHANGED <<trkVars, fnVars>>

EngineSpec == EngineInit /\ [][EngineNext]_vars

\* the same engine driven by single executeAction calls, with listeners
\* that throw and listeners that return on every event of a command
ListenerNext ==
  \/ \E lib \in {"null"} : EngineInitialize(lib) /\ UNCHANGED <<trkVars, fnVars>>
  \/ \E ev \in ActionEvents, cb \in Callbacks :
       AddEventListener(ev, cb) /\ UNCHANGED <<trkVars, fnVars>>
  \/ \E type \in ActionTypes :
       StartCall("executeAction", <<type>>) /\ UNCHANGED <<trkVars, fnVars>>
  \/ BeginCommand /\ UNCHANGED <<trkVars, fnVars>>
  \/ \E i \in Slots, outcome \in WaitSettles :
       OperationSettles(i, outcome) /\ UNCHANGED <<trkVars, fnVars>>
  \/ \E i \in Slots : TimerFires(i) /\ UNCHANGED <<trkVars, fnVars>>
  \/ Resume /\ UNCHANGED <<trkVars, fnVars>>
  \/ \E resolved \in BOOLEAN : DiagnosticSettles(resolved) /\ UNCHANGED <<trkVars, fnVars>>
  \/ Finish /\ UNCHANGED <<trkVars, fnVars>>

ListenerSpec == EngineInit /\ [][ListenerNext]_vars

\* timers fire and promise continuations run; nothing makes an operation of
\* the page, or the diagnostic screenshot, settle
EngineFairSpec ==
  /\ EngineSpec
  /\ WF_vars(BeginCommand /\ UNCHANGED <<trkVars, fnVars>>)
  /\ WF_vars(Resume /\ UNCHANGED <<trkVars, fnVars>>)
  /\ WF_vars(Finish /\ UNCHANGED <<trkVars, fnVars>>)
  /\ WF_vars((\E i \in Slots : TimerFires(i)) /\ UNCHANGED <<trkVars, fnVars>>)

\* ================================================== the mutation tracker
\* FormRegistry with trackFormChanges: a MutationObserver on document.body
\* evicts removed forms and asks for a debounced re-scan.
MutationKinds == {"added", "removed", "attribute"}
\* el is the form added or removed; the callback does not look at the
\* target of an attribute record
MutationRecords == [kind : MutationKinds, el : Elements \cup {""}]

\* the page inserts / removes a form node
InsertForm(doc, el, front) == IF front THEN <<el>> \o doc ELSE Append(doc, el)
RemoveForm(doc, el) == SelectSeq(doc, LAMBDA x : x # el)

\* unregisterForm as the observer callback calls it (errors swallowed)
UnregisterFormResult(st, init, hooked, formId) ==
  IF ~EnsureInitialized(init) \/ ~MapHas(st.forms, formId)
  THEN st
  ELSE [forms |-> MapDelete(st.forms, formId),
        formElements |-> MapDelete(st.formElements, formId),
        eventListeners |->
          HookListener(st.eventListeners, hooked, "form_unregistered")]

\* the id the observer callback looks a removed form up by: id || name
RemovedFormId(el) == IF ElemId[el] # "" THEN ElemId[el] ELSE ElemName[el]

\* the observer callback over its records: removed forms are unregistered at
\* once; added forms and watched attribute changes set shouldRedetect
RECURSIVE ProcessMutations(_, _, _, _, _)
ProcessMutations(acc, init, hooked, recs, i) ==
  IF i > Len(recs) THEN acc
  ELSE LET r == recs[i]
           formId == RemovedFormId(r.el)
       IN ProcessMutations(
            IF r.kind = "removed"
            THEN IF formId # "" /\ MapHas(acc.st.forms, formId)
                 THEN [acc EXCEPT
                         !.st = UnregisterFormResult(acc.st, init, hooked,
                                                     formId)]
                 ELSE acc
            ELSE [acc EXCEPT !.shouldRedetect = TRUE],
            init, hooked, recs, i + 1)

\* setTimeout returns an id that no pending timer has, and not the one just
\* cleared
FreeTimers(tm) == {t \in TimerIds : tm[t] = -1}
FreshTimer(tm) == CHOOSE t \in FreeTimers(tm) : \A u \in FreeTimers(tm) : t <= u

\* mutant: the pending timer is not cleared
DebouncedRedetection_NoClear(tm, tid) ==
  [timers |-> [tm EXCEPT ![FreshTimer(tm)] = DebounceWindow],
   timeoutId |-> FreshTimer(tm)]

\* _debouncedRedetection(): clearTimeout of the pending timer, if any, then
\* setTimeout(re-scan, 300)
DebouncedRedetection(tm, tid) ==
  LET cleared == IF tid # 0 THEN [tm EXCEPT ![tid] = -1] ELSE tm
  IN [timers |-> [cleared EXCEPT ![FreshTimer(tm)] = DebounceWindow],
      timeoutId |-> FreshTimer(tm)]

\* ------------------------------------------------------ tracker: the page
Notify(kind, el) ==
  mutations' = IF mutationObserver
               THEN Append(mutations, [kind |-> kind, el |-> el])
               ELSE mutations

PageAddsForm(el, front) ==
  /\ el \notin Range(document)
  /\ Len(mutations) < MaxRecords
  /\ document' = InsertForm(document, el, front)
  /\ Notify("added", el)
  /\ ret' = Ret("page", NoError, "", <<>>, EmptyFill, <<>>)
  /\ UNCHANGED <<initialized, forms, formElements, formLibrary,
                 addEventListener, eventListeners, value>>
  /\ UNCHANGED <<mutationObserver, timeoutId, timers>>

PageRemovesForm(el) ==
  /\ el \in Range(document)
  /\ Len(mutations) < MaxRecords
  /\ document' = RemoveForm(document, el)
  /\ Notify("removed", el)
  /\ ret' = Ret("page", NoError, "", <<>>, EmptyFill, <<>>)
  /\ UNCHANGED <<initialized, forms, formElements, formLibrary,
                 addEventListener, eventListeners, value>>
  /\ UNCHANGED <<mutationObserver, timeoutId, timers>>

\* a watched attribute (class, name, id, role, ...) of a node changes
PageChangesAttribute ==
  /\ mutationObserver
  /\ Len(mutations) < MaxRecords
  /\ Notify("attribute", "")
  /\ ret' = Ret("page", NoError, "", <<>>, EmptyFill, <<>>)
  /\ UNCHANGED <<initialized, forms, formElements, formLibrary,
                 addEventListener, eventListeners, document, value>>
  /\ UNCHANGED <<mutationObserver, timeoutId, timers>>

\* --------------------------------------------------- tracker: the registry
\* initialize(formLibrary) of the tracking registry: also starts the observer
TrackerInitialize(lib) ==
  /\ Initialize(lib)
  /\ mutationObserver' =
       IF ~initialized /\ DEFAULT_FORM_REGISTRY_CONFIG.trackFormChanges
       THEN TRUE ELSE mutationObserver
  /\ UNCHANGED <<mutations, timeoutId, timers>>

\* dispose(): also disconnects the observer, which drops its queued records;
\* a pending debounce timer is left armed
TrackerDispose ==
  /\ Dispose
  /\ mutationObserver' = FALSE
  /\ mutations' = <<>>
  /\ UNCHANGED <<timeoutId, timers>>

\* the MutationObserver callback, run with all the records queued so far
ObserverCallback ==
  /\ mutationObserver
  /\ mutations # <<>>
  /\ LET acc == ProcessMutations(
                  [st |-> Catalogue, shouldRedetect |-> FALSE],
                  initialized, addEventListener, mutations, 1)
         deb == IF acc.shouldRedetect
                THEN DebouncedRedetection(timers, timeoutId)
                ELSE [timers |-> timers, timeoutId |-> timeoutId]
     IN /\ acc.shouldRedetect => FreeTimers(timers) # {}
        /\ ListenersFit(acc.st.eventListeners)
        /\ forms' = acc.st.forms
        /\ formElements' = acc.st.formElements
        /\ eventListeners' = acc.st.eventListeners
        /\ timers' = deb.timers
        /\ timeoutId' = deb.timeoutId
  /\ mutations' = <<>>
  /\ ret' = Ret("observer", NoError, "", <<>>, EmptyFill, <<>>)
  /\ UNCHANGED <<initialized, formLibrary, addEventListener, document, value,
                 mutationObserver>>

\* one clock tick passes; a timer that is due fires before time moves on
Tick ==
  /\ \E t \in TimerIds : timers[t] > 0
  /\ \A t \in TimerIds : timers[t] # 0
  /\ timers' = [t \in TimerIds |-> IF timers[t] > 0 THEN timers[t] - 1
                                   ELSE timers[t]]
  /\ UNCHANGED <<regVars, mutationObserver, mutations, timeoutId>>

\* the debounce timer fires: _detectAndRegisterForms(), errors swallowed,
\* then timeoutId = null
RedetectionFires(t) ==
  /\ timers[t] = 0
  /\ LET st == DetectAndRegisterForms(Catalogue, initialized, formLibrary,
                                      addEventListener, document, 1)
     IN /\ ListenersFit(st.eventListeners)
        /\ forms' = st.forms
        /\ formElements' = st.formElements
        /\ eventListeners' = st.eventListeners
  /\ timers' = [timers EXCEPT ![t] = -1]
  /\ timeoutId' = 0
  /\ ret' = Ret("redetect", NoError, "", <<>>, EmptyFill, <<>>)
  /\ UNCHANGED <<initialized, formLibrary, addEventListener, document, value,
                 mutationObserver, mutations>>

\* ------------------------------------------------------ tracker machine
TrackerNext ==
  \/ \E lib \in {"null"} : TrackerInitialize(lib) /\ UNCHANGED <<engVars, fnVars>>
  \/ \E id \in FormIds, el \in Elements :
       RegisterForm(id, el) /\ UNCHANGED <<engVars, trkVars, fnVars>>
  \/ \E id \in FormIds : UnregisterForm(id) /\ UNCHANGED <<engVars, trkVars, fnVars>>
  \/ TrackerDispose /\ UNCHANGED <<engVars, fnVars>>
  \/ \E el \in Elements, front \in BOOLEAN :
       PageAddsForm(el, front) /\ UNCHANGED <<engVars, fnVars>>
  \/ \E el \in Elements : PageRemovesForm(el) /\ UNCHANGED <<engVars, fnVars>>
  \/ PageChangesAttribute /\ UNCHANGED <<engVars, fnVars>>
  \/ ObserverCallback /\ UNCHANGED <<engVars, fnVars>>
  \/ Tick /\ UNCHANGED <<engVars, fnVars>>
  \/ \E t \in TimerIds : RedetectionFires(t) /\ UNCHANGED <<engVars, fnVars>>

TrackerSpec == Init /\ [][TrackerNext]_vars

\* ===================================================== field extraction
\* FormRegistry._extractFormFields of the registry that tracks the page,
\* applied to one form.  The form's content is a list of items in DOM
\* order: a control (input), either directly in the form or alone inside a
\* wrapper div; data-field-name sits on the wrapper when there is one, else
\* on the control.
MaxItems == 2
FormItems ==
  [wrapped : BOOLEAN, dataFieldName : {"", "email"},
   name : {"", "email", "phone"}, id : {"", "email"},
   type : {"text", "hidden"}]
FormInputs == UNION {[1..n -> FormItems] : n \in 0..MaxItems}

\* the forEach over querySelectorAll('input, textarea, select')
RECURSIVE StandardFields(_, _)
StandardFields(items, i) ==
  IF i > Len(items) THEN <<>>
  ELSE LET c == items[i]
           skip ==
             \/ c.name = "" /\ ~DEFAULT_FORM_REGISTRY_CONFIG.includeHiddenFields
             \/ /\ c.type = "hidden"
                /\ ~DEFAULT_FORM_REGISTRY_CONFIG.includeHiddenFields
           field == [name |-> IF c.name # "" THEN c.name ELSE c.id,
                     type |-> c.type]
       IN (IF skip THEN <<>> ELSE <<field>>) \o StandardFields(items, i + 1)

\* _getFieldName(element) for the element of item c that is a candidate
\* (the wrapper, or the bare control): data-field-name, then the name and
\* the id of the element or of its nested control, else ''
GetFieldName(c) ==
  IF c.dataFieldName # "" THEN c.dataFieldName
  ELSE IF c.name # "" THEN c.name
  ELSE c.id

\* the elements _extractReactFinalFormFields looks at, in its order: those
\* matched by the selector list ([data-field-name]), then those of
\* querySelectorAll('*') that _isReactFinalFormField accepts (an element
\* with data-field-name, or one with a nested control)
CustomCandidates(items) ==
  SelectSeq(items, LAMBDA c : c.dataFieldName # "")
    \o SelectSeq(items, LAMBDA c : c.dataFieldName # "" \/ c.wrapped)

\* _extractCustomFieldInfo (null when no name is found) and the push,
\* guarded by !fields.some(f => f.name === field.name)
RECURSIVE PushCustomFields(_, _, _)
PushCustomFields(cands, i, fields) ==
  IF i > Len(cands) THEN fields
  ELSE LET name == GetFieldName(cands[i])
           known == \E k \in 1..Len(fields) : fields[k].name = name
       IN PushCustomFields(cands, i + 1,
            IF name = "" \/ known THEN fields
            ELSE Append(fields, [name |-> name, type |-> "text"]))

\* _extractReactFinalFormFields: its own list, started empty
ExtractReactFinalFormFields(items) ==
  PushCustomFields(CustomCandidates(items), 1, <<>>)

\* _extractFormFields: the standard fields, then the custom ones
ExtractTrackedFormFields(items) ==
  StandardFields(items, 1) \o ExtractReactFinalFormFields(items)

\* ContextCapture._extractFieldName(wrapper, index).  Strings are sequences
\* of characters, so that trim, startsWith, substring and the replace
\* chain of _labelToFieldName are computed.
Whitespace == {" "}
LowerAlnum ==
  {"a", "b", "c", "d", "e", "f", "g", "h", "i", "j", "k", "l", "m", "n", "o",
   "p", "q", "r", "s", "t", "u", "v", "w", "x", "y", "z",
   "0", "1", "2", "3", "4", "5", "6", "7", "8", "9"}
ToLowerCase(c) == IF c = "A" THEN "a" ELSE IF c = "B" THEN "b" ELSE c

RECURSIVE TrimLeft(_, _)
TrimLeft(str, chars) ==
  IF str # <<>> /\ Head(str) \in chars THEN TrimLeft(Tail(str), chars)
  ELSE str
RECURSIVE TrimRight(_, _)
TrimRight(str, chars) ==
  IF str # <<>> /\ str[Len(str)] \in chars
  THEN TrimRight(SubSeq(str, 1, Len(str) - 1), chars)
  ELSE str
\* String.prototype.trim
Trim(str) == TrimRight(TrimLeft(str, Whitespace), Whitespace)

StartsWith(str, prefix) ==
  Len(str) >= Len(prefix) /\ SubSeq(str, 1, Len(prefix)) = prefix

prefixesToRemove ==
  << <<"f", "i", "e", "l", "d", "-">>,
     <<"f", "o", "r", "m", "-">>,
     <<"i", "n", "p", "u", "t", "-">>,
     <<"r", "f", "f", "-", "f", "i", "e", "l", "d", "-">>,
     <<"w", "r", "a", "p", "p", "e", "r", "-", "f", "i", "e", "l", "d", "-">> >>

\* mutant: the prefix is cut even when nothing is left of the name
RECURSIVE StripFieldPrefix_Always(_, _)
StripFieldPrefix_Always(fieldName, i) ==
  IF i > Len(prefixesToRemove) THEN fieldName
  ELSE IF StartsWith(fieldName, prefixesToRemove[i])
  THEN SubSeq(fieldName, Len(prefixesToRemove[i]) + 1, Len(fieldName))
  ELSE StripFieldPrefix_Always(fieldName, i + 1)

\* _stripFieldPrefix: the first prefix that leaves a non-empty rest is cut
RECURSIVE StripFieldPrefix(_, _)
StripFieldPrefix(fieldName, i) ==
  IF i > Len(prefixesToRemove) THEN fieldName
  ELSE LET stripped == SubSeq(fieldName, Len(prefixesToRemove[i]) + 1,
                              Len(fieldName))
       IN IF StartsWith(fieldName, prefixesToRemove[i]) /\ stripped # <<>>
          THEN stripped
          ELSE StripFieldPrefix(fieldName, i + 1)

\* replace(/\s+/g, '_') and replace(/_+/g, '_'): a run of characters of
\* the set becomes one underscore
RECURSIVE ReplaceRuns(_, _)
ReplaceRuns(str, chars) ==
  IF str = <<>> THEN <<>>
  ELSE IF Head(str) \in chars
  THEN <<"_">> \o ReplaceRuns(TrimLeft(str, chars), chars)
  ELSE <<Head(str)>> \o ReplaceRuns(Tail(str), chars)

unknown_field ==
  <<"u", "n", "k", "n", "o", "w", "n", "_", "f", "i", "e", "l", "d">>

\* _labelToFieldName: lower case, drop what is not a letter, a digit or
\* white space, white space to underscores, no underscore at either end,
\* no double underscore; 'unknown_field' when nothing is left
LabelToFieldName(label) ==
  LET lower == [k \in 1..Len(label) |-> ToLowerCase(label[k])]
      kept == SelectSeq(lower, LAMBDA c : c \in LowerAlnum \cup Whitespace)
      joined == ReplaceRuns(kept, Whitespace)
      inner == TrimRight(TrimLeft(joined, {"_"}), {"_"})
      single == ReplaceRuns(inner, {"_"})
  IN IF single # <<>> THEN single ELSE unknown_field

\* the wrappers drawn: texts that are absent, blank, a bare prefix, a
\* prefixed name, a label with a capital and a space, and punctuation
Texts ==
  { <<>>, <<" ">>, <<"f", "i", "e", "l", "d", "-">>,
    <<"f", "i", "e", "l", "d", "-", "a">>, <<"A", " ", "b">>, <<"!">> }
Wrappers ==
  [hasInput : BOOLEAN, inputName : Texts, inputId : {<<>>, <<"a">>},
   fieldWrapper : Texts, formLabel : Texts, ariaLabel : {<<>>, <<"!">>},
   placeholder : {<<>>, <<"!">>}, selectbox : {<<>>, <<" ">>},
   index : {0, 1}]

\* _getFieldTypeHint(wrapper)
GetFieldTypeHint(w) ==
  IF w.selectbox # <<>> THEN <<"s", "e", "l", "e", "c", "t", "b", "o", "x">>
  ELSE IF w.hasInput THEN <<"t", "e", "x", "t">>
  ELSE <<"f", "i", "e", "l", "d">>

IndexDigits == <<"0", "1">>

\* _extractFieldName(wrapper, index): the seven sources in priority order
ExtractFieldName(w) ==
  LET name == IF w.inputName # <<>> THEN w.inputName ELSE w.inputId
  IN IF w.hasInput /\ name # <<>> /\ Trim(name) # <<>>
     THEN StripFieldPrefix(Trim(name), 1)
     ELSE IF w.fieldWrapper # <<>> /\ Trim(w.fieldWrapper) # <<>>
     THEN StripFieldPrefix(Trim(w.fieldWrapper), 1)
     ELSE IF w.formLabel # <<>> /\ Trim(w.formLabel) # <<>>
     THEN LabelToFieldName(Trim(w.formLabel))
     ELSE IF w.ariaLabel # <<>> /\ Trim(w.ariaLabel) # <<>>
     THEN LabelToFieldName(Trim(w.ariaLabel))
     ELSE IF w.hasInput /\ w.placeholder # <<>> /\ Trim(w.placeholder) # <<>>
     THEN LabelToFieldName(Trim(w.placeholder))
     ELSE IF w.selectbox # <<>> /\ Trim(w.selectbox) # <<>>
     THEN LabelToFieldName(Trim(w.selectbox))
     ELSE GetFieldTypeHint(w) \o <<"_", IndexDigits[w.index + 1]>>

\* ------------------------------------------------ field-extraction machine
FieldInit ==
  /\ RegInit
  /\ config = [debugMode |-> FALSE, screenshotOnError |-> TRUE]
  /\ EngConstructed
  /\ TrkConstructed
  /\ input \in [fn : {"_extractFormFields"}, form : FormInputs]
               \cup [fn : {"_extractFieldName"}, wrapper : Wrappers]
  /\ output = NotApplied

\* getFormContext's field list for one form
ApplyExtractFormFields ==
  /\ ~output.done
  /\ input.fn = "_extractFormFields"
  /\ output' = Returned(ExtractTrackedFormFields(input.form))
  /\ UNCHANGED <<regVars, engVars, trkVars, input>>

\* the name capturePageContext gives a design-system field
ApplyExtractFieldName ==
  /\ ~output.done
  /\ input.fn = "_extractFieldName"
  /\ output' = Returned(ExtractFieldName(input.wrapper))
  /\ UNCHANGED <<regVars, engVars, trkVars, input>>

FieldNext == ApplyExtractFormFields \/ ApplyExtractFieldName

FieldSpec == FieldInit /\ [][FieldNext]_vars

\* ------------------------------------------------------ DOMActions: click
MaxChildren == 2

\* the selectors _findClickableChild tries, in its order
clickableSelectors ==
  <<"a[href]", "button", "input[type=button]", "input[type=submit]",
    "[role=button]", "[onclick]", "[data-testid*=button]",
    "[data-button-text]">>

SelectorSet == {clickableSelectors[k] : k \in 1..Len(clickableSelectors)}

\* an element below the resolved one: what it is (one of the selectors, an
\* anchor without href, or a plain span), whether it has a box that takes
\* pointer events, and whether it is a direct child
Descendants ==
  [kind : SelectorSet \cup {"a", "span"}, box : BOOLEAN, direct : BOOLEAN]

\* the element _findElement resolved: a div, with or without a box, and the
\* elements below it in document order (the first is always a direct child)
ResolvedElements ==
  {e \in [box : BOOLEAN,
          below : UNION {[1..n -> Descendants] : n \in 0..MaxChildren}] :
     e.below # <<>> => e.below[1].direct}

\* _isElementClickable: a non-empty box, displayed, visible, pointer events
IsElementClickable(el) == el.box

\* element.querySelector(selector): index of the first match below, or 0
QuerySelector(below, selector) ==
  LET hits == {k \in 1..Len(below) : below[k].kind = selector}
  IN IF hits = {} THEN 0 ELSE CHOOSE k \in hits : \A h \in hits : k <= h

TagName(d) ==
  IF d.kind \in {"a[href]", "a"} THEN "a"
  ELSE IF d.kind = "button" THEN "button"
  ELSE IF d.kind \in {"input[type=button]", "input[type=submit]"} THEN "input"
  ELSE "span"

Least(S) == IF S = {} THEN 0 ELSE CHOOSE k \in S : \A h \in S : k <= h

\* first loop of _findClickableChild: the first selector whose first match
\* is clickable
RECURSIVE BySelector(_, _)
BySelector(below, s) ==
  IF s > Len(clickableSelectors) THEN 0
  ELSE LET k == QuerySelector(below, clickableSelectors[s])
       IN IF k # 0 /\ IsElementClickable(below[k]) THEN k
          ELSE BySelector(below, s + 1)

\* _findClickableChild: index of the descendant chosen, or 0 for null
FindClickableChild(below) ==
  LET children  == {k \in 1..Len(below) : below[k].direct}
      clickable == {k \in children : IsElementClickable(below[k])}
      semantic  == {k \in clickable :
                      TagName(below[k]) \in {"a", "button", "input"}}
  IN IF BySelector(below, 1) # 0 THEN BySelector(below, 1)
     ELSE IF semantic # {} THEN Least(semantic)
     ELSE Least(clickable)

\* click: the element the click event goes to (0 is the resolved element
\* itself, k the k-th element below it), or the error thrown
Click(el) ==
  IF IsElementClickable(el) THEN [thrown |-> "", target |-> 0]
  ELSE IF FindClickableChild(el.below) # 0
       THEN [thrown |-> "", target |-> FindClickableChild(el.below)]
       ELSE [thrown |-> "ELEMENT_NOT_FOUND", target |-> 0]

\* ----------------------------------------------------------- click machine
ClickInit ==
  /\ RegInit
  /\ config = [debugMode |-> FALSE, screenshotOnError |-> TRUE]
  /\ EngConstructed
  /\ TrkConstructed
  /\ input \in [fn : {"click"}, element : ResolvedElements]
  /\ output = NotApplied

ApplyClick ==
  /\ ~output.done
  /\ input.fn = "click"
  /\ output' = Returned(Click(input.element))
  /\ UNCHANGED <<regVars, engVars, trkVars, input>>

ClickNext == ApplyClick

ClickSpec == ClickInit /\ [][ClickNext]_vars

\* ------------------------------------------------- DOMActions: similarity
MaxDescription == 5
MaxText == 4

\* descriptions are typed in lower case; element texts may hold capitals
Descriptions ==
  UNION {[1..n -> {"a", " "}] : n \in 0..MaxDescription}
ElementTexts ==
  UNION {[1..n -> {"a", "A", " "}] : n \in 0..MaxText}

\* String.prototype.toLowerCase
LowerCase(str) == [k \in 1..Len(str) |-> ToLowerCase(str[k])]

\* String.prototype.includes
Includes(str, part) ==
  \E k \in 0..(Len(str) - Len(part)) : SubSeq(str, k + 1, k + Len(part)) = part

\* split(/\s+/).filter(w => w !== ''): cur is the word being read
RECURSIVE SplitWords(_, _)
SplitWords(str, cur) ==
  IF str = <<>> THEN (IF cur = <<>> THEN <<>> ELSE <<cur>>)
  ELSE IF Head(str) \in Whitespace
       THEN (IF cur = <<>> THEN <<>> ELSE <<cur>>) \o SplitWords(Tail(str), <<>>)
       ELSE SplitWords(Tail(str), Append(cur, Head(str)))
Words(str) == SplitWords(str, <<>>)

\* scores are fractions; a score is kept as its numerator over Scale, which
\* every length and word count that can occur divides
RECURSIVE Gcd(_, _)
Gcd(a, b) == IF b = 0 THEN a ELSE Gcd(b, a % b)
RECURSIVE LcmUpTo(_)
LcmUpTo(n) == IF n <= 1 THEN 1 ELSE (LcmUpTo(n - 1) * n) \div Gcd(LcmUpTo(n - 1), n)
LongestText == IF MaxDescription > MaxText THEN MaxDescription ELSE MaxText
Scale == 10 * LcmUpTo(LongestText) * LcmUpTo(LongestText)
\* the score n / d, for the n and d that occur
Fraction(n, d) == (n * Scale) \div d

MathMax(a, b) == IF a > b THEN a ELSE b
MathMin(a, b) == IF a < b THEN a ELSE b
RECURSIVE Sum(_, _)
Sum(f, k) == IF k = 0 THEN 0 ELSE f[k] + Sum(f, k - 1)
MaxOf(S) == IF S = {} THEN 0 ELSE CHOOSE m \in S : \A x \in S : x <= m

\* shorter.length / longer.length
Coverage(a, b) ==
  Fraction(MathMin(Len(a), Len(b)), MathMax(Len(a), Len(b)))

\* the partial word match of both similarity functions
PartialWordMatch(word1, word2) ==
  /\ word1 # word2
  /\ Len(word1) >= 3
  /\ Len(word2) >= 3
  /\ (Includes(word1, word2) \/ Includes(word2, word1))

\* mutant: the combined word score is returned without the cap
WordSimilarity_Uncapped(words1, words2) ==
  LET pairs == (1..Len(words1)) \X (1..Len(words2))
      commonWords ==
        Cardinality({pr \in pairs : words1[pr[1]] = words2[pr[2]]})
      partialMatches ==
        Cardinality({pr \in pairs :
                       PartialWordMatch(words1[pr[1]], words2[pr[2]])})
      bestWordMatch ==
        [i \in 1..Len(words1) |->
           MaxOf({IF words1[i] = words2[j] THEN Scale
                  ELSE IF PartialWordMatch(words1[i], words2[j])
                       THEN (7 * Coverage(words1[i], words2[j])) \div 10
                       ELSE 0 : j \in 1..Len(words2)})]
      weightedScore == Sum(bestWordMatch, Len(words1))
      totalWords == MathMax(Len(words1), Len(words2))
      exactScore == Fraction(commonWords, totalWords)
      partialScore == (3 * Fraction(partialMatches, totalWords)) \div 10
      weightedAverage == weightedScore \div Len(words1)
  IN MathMax(exactScore, MathMax(partialScore, weightedAverage))

\* the word branch of _calculateExactSimilarity
WordSimilarity(words1, words2) ==
  LET pairs == (1..Len(words1)) \X (1..Len(words2))
      commonWords ==
        Cardinality({pr \in pairs : words1[pr[1]] = words2[pr[2]]})
      partialMatches ==
        Cardinality({pr \in pairs :
                       PartialWordMatch(words1[pr[1]], words2[pr[2]])})
      bestWordMatch ==
        [i \in 1..Len(words1) |->
           MaxOf({IF words1[i] = words2[j] THEN Scale
                  ELSE IF PartialWordMatch(words1[i], words2[j])
                       THEN (7 * Coverage(words1[i], words2[j])) \div 10
                       ELSE 0 : j \in 1..Len(words2)})]
      weightedScore == Sum(bestWordMatch, Len(words1))
      totalWords == MathMax(Len(words1), Len(words2))
      exactScore == Fraction(commonWords, totalWords)
      partialScore == (3 * Fraction(partialMatches, totalWords)) \div 10
      weightedAverage == weightedScore \div Len(words1)
  IN MathMin(Scale, MathMax(exactScore, MathMax(partialScore, weightedAverage)))

\* _calculateExactSimilarity(text1, text2)
CalculateExactSimilarity(text1, text2) ==
  LET safeText1 == Trim(LowerCase(text1))
      safeText2 == Trim(LowerCase(text2))
  IN IF safeText1 = <<>> \/ safeText2 = <<>> THEN 0
     ELSE IF safeText1 = safeText2 THEN Scale
     ELSE IF Includes(safeText1, safeText2) \/ Includes(safeText2, safeText1)
     THEN MathMax((7 * Scale) \div 10,
                  (9 * Coverage(safeText1, safeText2)) \div 10)
     ELSE IF Words(safeText1) = <<>> \/ Words(safeText2) = <<>> THEN 0
     ELSE WordSimilarity(Words(safeText1), Words(safeText2))

\* the word branch of _calculateEnhancedSimilarity
EnhancedWordSimilarity(words1, words2) ==
  LET matched == {i \in 1..Len(words1) :
                    \E j \in 1..Len(words2) : words1[i] = words2[j]}
      commonWords == Cardinality(matched)
      partialMatches ==
        Cardinality({pr \in ((1..Len(words1)) \ matched) \X (1..Len(words2)) :
                       PartialWordMatch(words1[pr[1]], words2[pr[2]])})
      totalWords == MathMax(Len(words1), Len(words2))
      exactScore == Fraction(commonWords, totalWords)
      partialScore == (5 * Fraction(partialMatches, totalWords)) \div 10
  IN MathMin(Scale, exactScore + partialScore)

\* _calculateEnhancedSimilarity(text1, text2)
CalculateEnhancedSimilarity(text1, text2) ==
  LET safeText1 == Trim(LowerCase(text1))
      safeText2 == Trim(LowerCase(text2))
  IN IF safeText1 = <<>> \/ safeText2 = <<>> THEN 0
     ELSE IF safeText1 = safeText2 THEN Scale
     ELSE IF Includes(safeText1, safeText2) \/ Includes(safeText2, safeText1)
     THEN (9 * Scale) \div 10
     ELSE IF Words(safeText1) = <<>> \/ Words(safeText2) = <<>> THEN 0
     ELSE EnhancedWordSimilarity(Words(safeText1), Words(safeText2))

\* ------------------------------------------------------ similarity machine
ScoreInit ==
  /\ RegInit
  /\ config = [debugMode |-> FALSE, screenshotOnError |-> TRUE]
  /\ EngConstructed
  /\ TrkConstructed
  /\ input \in [fn : {"_calculateExactSimilarity",
                      "_calculateEnhancedSimilarity"},
                text1 : Descriptions, text2 : ElementTexts]
  /\ output = NotApplied

ApplyExactSimilarity ==
  /\ ~output.done
  /\ input.fn = "_calculateExactSimilarity"
  /\ output' = Returned(CalculateExactSimilarity(input.text1, input.text2))
  /\ UNCHANGED <<regVars, engVars, trkVars, input>>

ApplyEnhancedSimilarity ==
  /\ ~output.done
  /\ input.fn = "_calculateEnhancedSimilarity"
  /\ output' = Returned(CalculateEnhancedSimilarity(input.text1, input.text2))
  /\ UNCHANGED <<regVars, engVars, trkVars, input>>

ScoreNext == ApplyExactSimilarity \/ ApplyEnhancedSimilarity

ScoreSpec == ScoreInit /\ [][ScoreNext]_vars

\* ------------------------------------- DOMActions: search by description
MaxCandidates == 2

\* the elements of the page, in document order.  An element is described
\* by its aria-label; its text content is empty or a long text that shares
\* nothing with the description (textLength is its length), so the other
\* properties score 0.  The factors drawn keep every product away from the
\* two thresholds, where floating-point rounding would decide.
ElementKinds == {"button", "input", "span[onclick]", "a[href]", "div"}
SweepTexts == {<<>>, <<"a">>, <<"a", " ", "a">>}
PageElements ==
  [kind : ElementKinds, ariaLabel : SweepTexts, textLength : {0, 1200},
   id : {"", "a"}]
Pages == UNION {[1..n -> PageElements] : n \in 0..MaxCandidates}
SweepDescriptions == {<<"a">>, <<"a", " ", "a">>, <<"#", "a">>}

\* description.includes('#') || description.includes('.') || includes('[')
LooksLikeSelector(description) ==
  \E k \in 1..Len(description) : description[k] \in {"#", ".", "["}

\* querySelectorAll: the positions, in document order, of the elements a
\* selector matches
RECURSIVE IndicesWhere(_, _, _)
IndicesWhere(page, k, matching) ==
  IF k > Len(page) THEN <<>>
  ELSE (IF page[k] \in matching THEN <<k>> ELSE <<>>)
         \o IndicesWhere(page, k + 1, matching)

\* the id a description '#<id>' selects
IdOf(description) == IF Len(description) = 2 THEN description[2] ELSE ""
OfKind(kinds) == {e \in PageElements : e.kind \in kinds}

\* the five querySelectorAll lists, each in document order
ButtonElements(page) == IndicesWhere(page, 1, OfKind({"button"}))
FormInputElements(page) == IndicesWhere(page, 1, OfKind({"input"}))
ClickableDivs(page) == IndicesWhere(page, 1, OfKind({"span[onclick]"}))
LinkElements(page) == IndicesWhere(page, 1, OfKind({"a[href]"}))
OtherClickable(page) == IndicesWhere(page, 1, OfKind({"div", "span[onclick]"}))

\* allElements: the lists one after the other
AllElements(page) ==
  ButtonElements(page) \o FormInputElements(page) \o ClickableDivs(page)
    \o LinkElements(page) \o OtherClickable(page)

\* the size penalty, in twentieths
SizeFactor(textLength) ==
  IF textLength > 1000 THEN 1
  ELSE IF textLength > 500 THEN 2
  ELSE IF textLength > 100 THEN 12
  ELSE 20

\* the bonus of the element type, in tenths
TypeBonus(e) ==
  IF e.kind = "button" THEN 15
  ELSE IF e.kind = "input" THEN 13
  ELSE IF e.kind = "a[href]" THEN 12
  ELSE IF e.kind = "span[onclick]" THEN 12
  ELSE 10

\* adjustedScore of one element, as a numerator over 200 * Scale
AdjustedScore(description, e) ==
  LET textScore == 0
      ariaScore == CalculateExactSimilarity(description, e.ariaLabel)
      maxScore == MathMax(textScore, ariaScore)
  IN maxScore * SizeFactor(e.textLength) * TypeBonus(e)

\* 0.15 and 0.9 over 200 * Scale
AcceptThreshold == 30 * Scale
ExcellentThreshold == 180 * Scale

\* the loop over clickableElements, from position i on
RECURSIVE Sweep(_, _, _, _, _, _)
Sweep(description, page, all, i, bestElement, bestScore) ==
  IF i > Len(all) THEN bestElement
  ELSE LET adjustedScore == AdjustedScore(description, page[all[i]])
           accepted == adjustedScore > AcceptThreshold /\ adjustedScore > bestScore
       IN IF adjustedScore >= ExcellentThreshold THEN all[i]
          ELSE Sweep(description, page, all, i + 1,
                     IF accepted THEN all[i] ELSE bestElement,
                     IF accepted THEN adjustedScore ELSE bestScore)

\* _findElementByDescriptionEnhanced: the position in the document of the
\* element returned, 0 for null
FindElementByDescriptionEnhanced(description, page) ==
  LET bySelector ==
        IndicesWhere(page, 1, {e \in PageElements :
                                 e.id # "" /\ e.id = IdOf(description)})
  IN IF description # <<>> /\ LooksLikeSelector(description) /\ bySelector # <<>>
     THEN bySelector[1]
     ELSE Sweep(description, page, AllElements(page), 1, 0, 0)

\* -------------------------------------------------------- search machine
SweepInit ==
  /\ RegInit
  /\ config = [debugMode |-> FALSE, screenshotOnError |-> TRUE]
  /\ EngConstructed
  /\ TrkConstructed
  /\ input \in [fn : {"_findElementByDescriptionEnhanced"},
                description : SweepDescriptions, page : Pages]
  /\ output = NotApplied

ApplyFindElementByDescriptionEnhanced ==
  /\ ~output.done
  /\ input.fn = "_findElementByDescriptionEnhanced"
  /\ output' = Returned(FindElementByDescriptionEnhanced(input.description,
                                                         input.page))
  /\ UNCHANGED <<regVars, engVars, trkVars, input>>

SweepNext == ApplyFindElementByDescriptionEnhanced

SweepSpec == SweepInit /\ [][SweepNext]_vars



\* ======================================================= FormRegistry claims
KeysOf(fields) == {fields[i][1] : i \in 1..Len(fields)}
Occurrences(m, k) == Cardinality({i \in 1..Len(m) : m[i][1] = k})

\* C1: registerForm(id, node) with an id that is already registered fails
\* (FORM_NOT_FOUND), and the catalogue is exactly as before: same ids, id
\* bound to the same element and form API, exactly one record for id.
C1_DuplicateRegisterRejected ==
  [][(ret'.op = "registerForm" /\ initialized /\ MapHas(forms, ret'.formId))
       => /\ ret'.err = "FORM_NOT_FOUND"
          /\ forms' = forms
          /\ formElements' = formElements
          /\ Occurrences(forms', ret'.formId) = 1
          /\ Occurrences(formElements', ret'.formId) = 1]_vars

C1_Witness ==
  /\ ret.op = "registerForm"
  /\ ret.err = "FORM_NOT_FOUND"
  /\ initialized
  /\ MapHas(forms, ret.formId)

\* C2: while the registry is not initialized, registerForm, unregisterForm,
\* fillForm, fillAnyForm, submitForm, submitAnyForm and getFormContext each
\* fail with INVALID_CONFIGURATION and change neither the catalogue nor any
\* form field.
GuardedOps == {"registerForm", "unregisterForm", "fillForm", "fillAnyForm",
               "submitForm", "submitAnyForm", "getFormContext"}

C2_UninitializedCallsFail ==
  [][(~initialized /\ ret'.op \in GuardedOps)
       => /\ ret'.err = "INVALID_CONFIGURATION"
          /\ forms' = forms
          /\ formElements' = formElements
          /\ value' = value
          /\ ~initialized']_vars

C2_Witness ==
  /\ ~initialized
  /\ ret.op = "fillAnyForm"
  /\ ret.err = "INVALID_CONFIGURATION"
  /\ Len(ret.fields) > 0
  /\ \E sl \in ControlSlots : value[sl] # ""

\* C3: a fill on a resolved form goes through every supplied field even when
\* an earlier field's change raised: every supplied key is in exactly one of
\* filledFields / failedFields, failedFields holds exactly the keys whose
\* change raised, fieldsCount is the number of supplied keys, success is
\* true exactly when failedFields is empty, and every key that did not raise
\* and names a control has set that control.  (A call ends without a result
\* only when the form API's batch itself raised: EXECUTION_FAILED.)
FillReturned(r) == r.op \in {"fillForm", "fillAnyForm"} /\ r.err = NoError
FillResolved(r) ==
  /\ r.op \in {"fillForm", "fillAnyForm"}
  /\ r.err \notin {"INVALID_CONFIGURATION", "FORM_NOT_FOUND"}

C3_FillRecordsEveryField ==
  [][FillResolved(ret') =>
       \/ /\ ret'.err = "EXECUTION_FAILED"
          /\ ret'.raised = {"batch"}
          /\ MapGet(forms, ret'.formId) = "library"
       \/ /\ ret'.err = NoError
          /\ Range(ret'.result.filledFields) \cup Range(ret'.result.failedFields)
               = KeysOf(ret'.fields)
          /\ Range(ret'.result.filledFields) \cap Range(ret'.result.failedFields)
               = {}
          /\ Len(ret'.result.filledFields) + Len(ret'.result.failedFields)
               = Len(ret'.fields)
          /\ Range(ret'.result.failedFields) = ret'.raised
          /\ ret'.result.fieldsCount = Len(ret'.fields)
          /\ ret'.result.success = (ret'.result.failedFields = <<>>)
          /\ \A i \in 1..Len(ret'.fields) :
               LET k == ret'.fields[i][1]
                   el == MapGet(formElements, ret'.formId)
                   c == QueryByName(el, k, 1)
               IN (k \notin ret'.raised /\ c # 0)
                    => value'[<<el, c>>] = ret'.fields[i][2]]_vars

\* a change raised on the first key and the later key was still applied
C3_Witness ==
  /\ FillReturned(ret)
  /\ Len(ret.fields) = 2
  /\ ret.result.failedFields = << ret.fields[1][1] >>
  /\ ret.result.filledFields = << ret.fields[2][1] >>
  /\ ~ret.result.success
  /\ \E sl \in ControlSlots : value[sl] = ret.fields[2][2]

\* C4: fillAnyForm fills a registered form whose field inventory shares the
\* greatest number of names with the supplied keys (a key counts once per
\* form however many controls carry it); when no registered form shares a
\* name it fails with FORM_NOT_FOUND and no control changes.
Overlap(el, fields) ==
  Cardinality({k \in KeysOf(fields) :
                 \E i \in 1..Len(Controls[el]) :
                    /\ Controls[el][i].name = k
                    /\ Controls[el][i].type # "hidden"})

C4_FillAnyPicksBestOverlap ==
  [][(initialized /\ ret'.op = "fillAnyForm") =>
       IF \E i \in 1..Len(formElements) :
            Overlap(formElements[i][2], ret'.fields) > 0
       THEN /\ ret'.err \in {NoError, "EXECUTION_FAILED"}
            /\ MapHas(formElements, ret'.formId)
            /\ \A i \in 1..Len(formElements) :
                 Overlap(MapGet(formElements, ret'.formId), ret'.fields)
                   >= Overlap(formElements[i][2], ret'.fields)
            /\ \A sl \in ControlSlots :
                 sl[1] # MapGet(formElements, ret'.formId)
                   => value'[sl] = value[sl]
       ELSE /\ ret'.err = "FORM_NOT_FOUND"
            /\ value' = value]_vars

\* two forms with different overlaps are registered, the one registered
\* later has the greater overlap and is the one filled
C4_Witness ==
  /\ ret.op = "fillAnyForm"
  /\ ret.err = NoError
  /\ Len(formElements) = 2
  /\ ret.formId = formElements[2][1]
  /\ Overlap(formElements[1][2], ret.fields) = 1
  /\ Overlap(formElements[2][2], ret.fields) = 2

\* no registered form shares a field name with the supplied keys
C4_WitnessNoMatch ==
  /\ ret.op = "fillAnyForm"
  /\ ret.err = "FORM_NOT_FOUND"
  /\ Len(formElements) > 0
  /\ Len(ret.fields) > 0

\* ====================================================== engine claims
CallEnded == pc \in {"returned", "threw"}
\* the call in flight passed the _ensureInitialized guard, the only source
\* of INVALID_CONFIGURATION
OnInitialized ==
  call.kind # "none" /\ ~(pc = "threw" /\ thrown = "INVALID_CONFIGURATION")
Running == {i \in Slots : operation[i] \in Suspended}

\* C5: executeActions on an initialized engine returns one result per
\* command when debug mode is off, whatever fails; when it is on, the list
\* ends with the first failed result and no later command is started.
C5_OneResultPerCommand ==
  (call.kind = "executeActions" /\ OnInitialized /\ CallEnded)
    => /\ pc = "returned"
       /\ \A i \in 1..Len(results) :
            ~results[i].success => (i = Len(results) \/ ~config.debugMode)
       /\ \/ Len(results) = Len(call.actions)
          \/ /\ config.debugMode
             /\ Len(results) > 0
             /\ ~results[Len(results)].success
             /\ \A i \in Slots : i > Len(results) => operation[i] = "none"

\* C6: the outcome of a command is decided by whichever of its timer and
\* its operation comes first: timer first gives EXECUTION_TIMEOUT, operation
\* first gives the operation's own outcome; the promise, the executor's
\* result and the result returned never change afterwards, whatever
\* completes or expires later.
C6_FirstEventDecides ==
  [][\A i \in Slots :
       /\ (promise[i] = "pending" /\ timer[i] = "armed" /\ timer'[i] = "fired")
            => promise'[i] = "EXECUTION_TIMEOUT"
       /\ (promise[i] = "pending" /\ operation[i] \in Suspended
             /\ operation'[i] \notin Suspended)
            => promise'[i] = operation'[i] /\ timer'[i] = "cleared"
       /\ promise[i] \notin {"none", "pending"} => promise'[i] = promise[i]
       /\ execResult[i] # NoResult => execResult'[i] = execResult[i]
       /\ i <= Len(results)
            => Len(results') >= i /\ results'[i] = results[i]
       /\ execResult'[i] # NoResult
            => /\ timer'[i] = "fired"
                 => execResult'[i] = Failed("EXECUTION_TIMEOUT")
               /\ timer'[i] = "cleared"
                 => execResult'[i] = ResultOf(operation'[i])
       /\ (i <= Len(results') /\ ~config.debugMode)
            => results'[i] = execResult'[i]
    ]_vars

\* the timer of a command fired first, its abandoned operation completed
\* later, and the result returned is still EXECUTION_TIMEOUT
C6_Witness ==
  \E i \in Slots :
    /\ timer[i] = "fired"
    /\ operation[i] = "fulfilled"
    /\ i <= Len(results)
    /\ results[i] = Failed("EXECUTION_TIMEOUT")

\* C7: on an initialized engine the call never rejects: every error becomes
\* a failed result.
C7_NeverThrows == OnInitialized => pc # "threw"

\* C8: executeAction with a type that is not valid returns a failed result
\* with INVALID_ACTION or VALIDATION_FAILED, having dispatched no operation
\* and left the registry as it was.
C8_InvalidTypeReturnsFailedResult ==
  (call.kind = "executeAction" /\ OnInitialized /\ CallEnded
     /\ call.actions[1] \notin validActionTypes)
    => /\ pc = "returned"
       /\ Len(results) = 1
       /\ ~results[1].success
       /\ results[1].errorCode \in {"INVALID_ACTION", "VALIDATION_FAILED"}
       /\ dispatched = <<>>

\* C9: once the timer of a command has expired, the call reports
\* EXECUTION_TIMEOUT for it; with debug mode off executeActions then goes on
\* to the next command, and in the end the call returns.
C9_TimeoutEventuallyReported ==
  \A i \in Slots :
    [](timer[i] = "fired"
         => <>(/\ i <= Len(results)
               /\ results[i] = Failed("EXECUTION_TIMEOUT")))

\* C10: at no moment are the operations of two commands both in progress.
C10_OneOperationInProgress == Cardinality(Running) <= 1

\* C11: after fillForm(id, fields) on a form with the native API, every key
\* reported in filledFields names a control of that form, and that control
\* now holds the supplied value.
C11_FilledFieldsNameControls ==
  (ret.op = "fillForm" /\ ret.err = NoError /\ MapHas(forms, ret.formId)
     /\ MapGet(forms, ret.formId) = "native")
    => LET el == MapGet(formElements, ret.formId)
       IN \A j \in 1..Len(ret.fields) :
            ret.fields[j][1] \in Range(ret.result.filledFields)
              => \E i \in 1..Len(Controls[el]) :
                   /\ Controls[el][i].name = ret.fields[j][1]
                   /\ value[<<el, i>>] = ret.fields[j][2]

\* C12: the lifecycle only moves forward: initialize on an initialized
\* registry fails with INVALID_CONFIGURATION and changes nothing, and no step
\* taken from the state dispose() leaves makes the registry initialized.
C12_LifecycleMovesForward ==
  [][/\ (initialized /\ ret'.op = "initialize")
          => /\ ret'.err = "INVALID_CONFIGURATION"
             /\ <<initialized, forms, formElements, formLibrary>>'
                  = <<initialized, forms, formElements, formLibrary>>
     /\ ret.op = "dispose" => ~initialized'
    ]_vars

C13_WitnessExplicit ==
  /\ ret.op = "registerForm"
  /\ ret.err = "INVALID_CONFIGURATION"
  /\ initialized
  /\ Len(forms) = maxForms

\* C14: submitAnyForm on an empty catalogue fails with FORM_NOT_FOUND;
\* otherwise it submits the first entry of the catalogue, and the catalogue
\* is in registration order: no step reorders the ids it keeps, and an id
\* that is registered comes after every id kept.
C14_SubmitAnyPicksEarliest ==
  [][/\ (ret'.op = "submitAnyForm" /\ initialized /\ Len(forms) = 0)
          => ret'.err = "FORM_NOT_FOUND"
     /\ (ret'.op = "submitAnyForm" /\ initialized /\ Len(forms) > 0)
          => ret'.formId = forms[1][1] /\ ret'.err # "FORM_NOT_FOUND"
     /\ \A a \in MapKeys(forms) \cap MapKeys(forms') :
          /\ \A b \in MapKeys(forms) \cap MapKeys(forms') :
               MapIndex(forms, a, 1) < MapIndex(forms, b, 1)
                 => MapIndex(forms', a, 1) < MapIndex(forms', b, 1)
          /\ \A n \in MapKeys(forms') \ MapKeys(forms) :
               MapIndex(forms', a, 1) < MapIndex(forms', n, 1)
    ]_vars

\* of the two forms registered, f2 is the earlier one (f1 was registered
\* after it, possibly again after being unregistered): f2 was submitted
C14_Witness ==
  /\ ret.op = "submitAnyForm"
  /\ ret.err = NoError
  /\ ret.formId = "f2"
  /\ MapKeys(forms) = {"f1", "f2"}
  /\ forms[1][1] = "f2"
  /\ forms[2][1] = "f1"

\* C15: fillForm, fillAnyForm, submitForm, submitAnyForm and getFormContext
\* (which is all capturePageContext asks of the registry) leave the
\* catalogue as it was, whether they succeed or fail; so does every step of
\* an engine command; the set of registered ids changes only in a step of
\* registerForm, unregisterForm, initialize (auto-detection), dispose, the
\* observer callback or the re-scan.
ReadOps ==
  {"fillForm", "fillAnyForm", "submitForm", "submitAnyForm", "getFormContext"}
WriteOps ==
  {"registerForm", "unregisterForm", "initialize", "dispose", "observer",
   "redetect"}

C16_EvictionMatchesRemovedNodes ==
  [][(ret'.op = "observer" /\ mutations # <<>> /\ mutations' = <<>>)
       => /\ \A j \in 1..Len(mutations) :
               (mutations[j].kind = "removed"
                  /\ mutations[j].el \notin Range(document))
                 => \A i \in 1..Len(formElements') :
                      formElements'[i][2] # mutations[j].el
          /\ \A i \in 1..Len(formElements) :
               ~MapHas(forms', formElements[i][1])
                 => formElements[i][2] \notin Range(document)
    ]_vars

\* C17: at most one re-scan is pending at any time; an observer callback
\* that asks for re-detection leaves exactly one timer, with the whole
\* debounce window still to run, whatever was pending before; a re-scan runs
\* only when that timer has run the whole window, and leaves none pending.
Armed(tm) == {t \in TimerIds : tm[t] >= 0}
AsksRedetection == \E j \in 1..Len(mutations) : mutations[j].kind # "removed"

C17_OneRescanPerBurst ==
  [][/\ Cardinality(Armed(timers')) <= 1
     /\ (ret'.op = "observer" /\ mutations # <<>> /\ mutations' = <<>>
           /\ AsksRedetection)
          => /\ Armed(timers') = {timeoutId'}
             /\ timers'[timeoutId'] = DebounceWindow
     /\ (ret'.op = "redetect" /\ timers' # timers)
          => /\ \A t \in Armed(timers) \ Armed(timers') : timers[t] = 0
             /\ Armed(timers') = {}
     /\ \A t \in Armed(timers) \cap Armed(timers') :
          timers'[t] < timers[t] => timers'[t] = timers[t] - 1
    ]_vars

\* a second notification arrived before the timer of the first had fired:
\* that timer is cleared and the window starts again
C17_Witness ==
  /\ ret.op = "observer"
  /\ timeoutId = 2
  /\ timers[1] = -1
  /\ timers[2] = DebounceWindow

\* the listeners with every registration of callback cb taken out
Without(listeners, cb) ==
  [ev \in DOMAIN listeners |->
     SelectSeq(listeners[ev], LAMBDA c : c # cb)]

\* the calls of a listener sequence other than those of callback cb
CallsOfOthers(called, cb) == SelectSeq(called, LAMBDA c : c[2] # cb)

\* a step of executeAction that runs _emitEvent: the one up to the await
\* (action_started) and the one after it (action_completed / action_failed)
EmitsStarted ==
  pc = "begin" /\ pc' # "begin" /\ ValidateAction(call.actions[idx])
EmitsOutcome == pc = "finish" /\ pc' # "finish"
OutcomeEvent ==
  IF execResult[idx].success THEN "action_completed" ELSE "action_failed"

\* C18: with debug mode off a listener that throws changes nothing of the
\* emitting executeAction: the command goes on to the executor, the result
\* returned is the one returned without that listener, and every other
\* listener of the event is called as without it; with debug mode on, an
\* emitted event that has a throwing listener makes the call fail: it
\* rejects with EXECUTION_FAILED or returns a failed EXECUTION_FAILED result
C18_ListenerFailure ==
  [][/\ (EmitsStarted /\ ~config.debugMode)
          => /\ pc' \in {"await", "resume"}
             /\ CallsOfOthers(notified', "cbThrow") =
                  Emit(Without(eventListeners, "cbThrow"), config,
                       "action_started").called
     /\ (EmitsOutcome /\ ~config.debugMode)
          => LET alone == EngineOutcome(Without(eventListeners, "cbThrow"),
                                        config, execResult[idx])
             IN /\ pc' # "threw"
                /\ results' = Append(results, alone.result)
                /\ results'[Len(results')] = execResult[idx]
                /\ CallsOfOthers(notified', "cbThrow") = alone.called
                /\ UNCHANGED regVars
     /\ (/\ EmitsStarted
         /\ config.debugMode
         /\ "cbThrow" \in Range(eventListeners["action_started"]))
          => pc' = "threw" /\ thrown' = "EXECUTION_FAILED"
     /\ (/\ EmitsOutcome
         /\ config.debugMode
         /\ "cbThrow" \in Range(eventListeners[OutcomeEvent]))
          => \/ pc' = "threw" /\ thrown' = "EXECUTION_FAILED"
             \/ /\ Len(results') = Len(results) + 1
                /\ results'[Len(results')] = Failed("EXECUTION_FAILED")
    ]_vars

\* debug mode off, a command completed, and its action_completed event
\* called the throwing listener and then the listener registered after it
C18_Witness ==
  /\ ~config.debugMode
  /\ pc = "returned"
  /\ results = <<Completed>>
  /\ notified = << <<"action_completed", "cbThrow">>,
                   <<"action_completed", "cbOk">> >>

\* debug mode on, and the throwing action_completed listener turned a
\* completed command into a failed result
C18_WitnessDebug ==
  /\ config.debugMode
  /\ pc = "returned"
  /\ execResult[1] = Completed
  /\ results = <<Failed("EXECUTION_FAILED")>>

\* C19: a fillForm command whose fields parameter is missing, is not valid
\* JSON, or is valid JSON that denotes no object ends the command's
\* operation with VALIDATION_FAILED, and changes the value of no control
C19_BadFieldsRejected ==
  [][\A prm \in FillFormParameters :
       (/\ pc = "begin"
        /\ call.actions[idx] = "fillForm"
        /\ prm.fieldsParam # "object"
        /\ ExecuteFillForm(idx, prm))
         => /\ promise'[idx] = "VALIDATION_FAILED"
            /\ value' = value
    ]_vars

\* C20: a wait command with a selector and a condition and no duration
\* polls: it completes at the first poll that finds the condition true, and
\* fails with EXECUTION_TIMEOUT when no poll does within the timeout; only
\* a command that gives a duration sleeps for a fixed time
C20_WaitPollsWithoutDuration ==
  [][/\ \A prm \in WaitParameters :
          (/\ pc = "begin"
           /\ call.actions[idx] = "wait"
           /\ prm.duration = "absent"
           /\ ExecuteWait(idx, prm))
            => /\ operation'[idx] # "sleeping"
               /\ prm.target => operation'[idx] \in {"fulfilled", "polling"}
     /\ \A i \in Slots :
          (operation[i] = "polling" /\ operation'[i] # "polling")
            => operation'[i] \in {"fulfilled", "EXECUTION_TIMEOUT"}
    ]_vars

\* the caller's own addEventListener: one callback of the caller appended
\* to the listeners of one event, nothing else changed
CallerAddsListener ==
  /\ \E ev \in EventTypes, cb \in Callbacks :
       eventListeners' = [eventListeners EXCEPT ![ev] = Append(@, cb)]
  /\ UNCHANGED <<initialized, forms, formElements, formLibrary,
                 addEventListener, document, value, ret>>
  /\ UNCHANGED <<engVars, trkVars, fnVars>>

\* C30: the callbacks registered for an event change only by the caller's
\* own addEventListener: no registry or capture operation (registerForm,
\* the scan of initialize, fillForm, fillAnyForm, captureScreenshot)
\* changes them
C30_ListenersFrame ==
  [][eventListeners' # eventListeners => CallerAddsListener]_vars

\* C29: while the registry is not initialized (before initialize, and from
\* dispose to the next initialize) the catalogue is empty and the observer
\* is disconnected; a debounced re-scan that fires then registers nothing
\* and raises nothing; a mutation notification is processed only by an
\* initialized registry
C29_DisposedStaysEmpty ==
  [][/\ ~initialized'
          => forms' = <<>> /\ formElements' = <<>> /\ ~mutationObserver'
     /\ (ret'.op = "redetect" /\ timers' # timers /\ ~initialized)
          => /\ ret'.err = NoError
             /\ forms' = <<>> /\ formElements' = <<>>
             /\ eventListeners' = eventListeners
     /\ (ret'.op = "observer" /\ mutations # <<>> /\ mutations' = <<>>)
          => initialized /\ mutationObserver
    ]_vars

\* a re-scan scheduled before dispose has fired after it, on a page that
\* has forms
C29_Witness ==
  /\ ret.op = "redetect"
  /\ ~initialized
  /\ document # <<>>
  /\ forms = <<>>

\* the records of catalogue fe backed by element el
RecordsOf(fe, el) == {i \in 1..Len(fe) : fe[i][2] = el}

\* C28: auto-detection (the scan of initialize and every debounced
\* re-scan) adds no record for a form element of the page that already
\* backs a record: afterwards each live element backs at most one record,
\* unless it backed as many before the scan
C28_OneRecordPerElement ==
  [][(ret'.op \in {"initialize", "redetect"} /\ formElements' # formElements)
       => \A el \in Range(document) :
            \/ Cardinality(RecordsOf(formElements', el)) <= 1
            \/ Cardinality(RecordsOf(formElements', el)) =
                 Cardinality(RecordsOf(formElements, el))
    ]_vars

\* the event types of a sequence of listener calls
EventsOf(called) == {called[i][1] : i \in DOMAIN called}
\* every listener registered for event ev is among the calls
AllObserve(listeners, ev, called) ==
  \A cb \in Range(listeners[ev]) : <<ev, cb>> \in Range(called)

\* C27: for an executeAction call that passed validation, every
\* action_started listener is called before the operation begins, and the
\* operation then begins; once the operation has ended the call returns,
\* and the listeners of exactly one of action_completed and action_failed
\* are called: those of action_completed exactly when the returned result
\* has success = true
C27_EventOrder ==
  [][/\ EmitsStarted
          => /\ operation[idx] = "none"
             /\ AllObserve(eventListeners, "action_started", notified')
             /\ pc' \in {"await", "resume"}
     /\ EmitsOutcome
          => /\ notified' # <<>>
                  => operation[idx] \notin Suspended \cup {"none"}
             /\ pc' = "returned"
             /\ Len(results') = Len(results) + 1
             /\ LET ev == IF results'[Len(results')].success
                          THEN "action_completed" ELSE "action_failed"
                IN /\ EventsOf(notified') \subseteq {ev}
                   /\ AllObserve(eventListeners, ev, notified')
    ]_vars

\* C25: in the field list _extractFormFields returns for one form no two
\* fields have the same name
C25_FieldNamesUnique ==
  (input.fn = "_extractFormFields" /\ output.done)
    => \A i, j \in 1..Len(output.value) :
         output.value[i].name = output.value[j].name => i = j

\* C26: every field of the list _extractFormFields returns, and every name
\* _extractFieldName returns, is non-empty
C26_FieldNamesNonEmpty ==
  /\ (input.fn = "_extractFormFields" /\ output.done)
       => \A i \in 1..Len(output.value) : output.value[i].name # ""
  /\ (input.fn = "_extractFieldName" /\ output.done)
       => output.value # <<>>

\* a wrapper whose control is named by a bare prefix got that prefix as its
\* name: nothing was cut
C26_Witness ==
  /\ input.fn = "_extractFieldName"
  /\ input.wrapper.hasInput
  /\ input.wrapper.inputName = prefixesToRemove[1]
  /\ output.done
  /\ output.value = prefixesToRemove[1]

\* --------------------------------------------------------- DOMActions claims
\* the descendant the preference order of the selectors picks: the first
\* element, in document order, of the first selector that has a clickable one
PreferredDescendant(below) ==
  LET ranked == {s \in 1..Len(clickableSelectors) :
                   \E k \in 1..Len(below) :
                     below[k].kind = clickableSelectors[s] /\ below[k].box}
      best   == Least(ranked)
  IN IF ranked = {} THEN 0
     ELSE Least({k \in 1..Len(below) :
                   below[k].kind = clickableSelectors[best] /\ below[k].box})

\* C21: a click that resolves to a container (a div, not a control) wrapping
\* a clickable control is dispatched to the first clickable descendant in the
\* preference order of the selectors, never to the container.
C21_ClickGoesToDescendant ==
  (output.done /\ input.fn = "click"
     /\ PreferredDescendant(input.element.below) # 0)
    => /\ output.value.thrown = ""
       /\ output.value.target # 0
       /\ output.value.target = PreferredDescendant(input.element.below)

\* trim and lowercase, as both similarity functions normalise their arguments
Normalised(str) == Trim(LowerCase(str))

\* C24: the similarity score of any two strings lies in [0,1]; a string that
\* is non-empty after trimming scores 1.0 against itself; an empty query or
\* an empty candidate scores 0.
C24_ScoreRange ==
  (output.done /\ input.fn \in {"_calculateExactSimilarity",
                                "_calculateEnhancedSimilarity"})
    => /\ output.value \in 0..Scale
       /\ (input.text1 = input.text2 /\ Trim(input.text1) # <<>>)
            => output.value = Scale
       /\ (input.text1 = <<>> \/ input.text2 = <<>>) => output.value = 0

C24_Witness ==
  /\ output.done
  /\ input.fn = "_calculateExactSimilarity"
  /\ input.text1 = input.text2
  /\ Len(Words(input.text1)) = 2
  /\ output.value = Scale

\* the candidate neither contains the query nor is contained in it, and
\* the two have a word in common
SharesWordsOnly(q, c) ==
  /\ ~Includes(Normalised(c), Normalised(q))
  /\ ~Includes(Normalised(q), Normalised(c))
  /\ \E i \in 1..Len(Words(Normalised(q))) :
       \E j \in 1..Len(Words(Normalised(c))) :
         Words(Normalised(q))[i] = Words(Normalised(c))[j]

\* C23: a candidate that contains the query as a substring (after trim and
\* lowercase) scores strictly higher than every candidate that only shares
\* words with the query.
C23_SubstringDominates ==
  (output.done /\ input.fn = "_calculateExactSimilarity"
     /\ Includes(Normalised(input.text2), Normalised(input.text1)))
    => \A c2 \in ElementTexts :
         SharesWordsOnly(input.text1, c2)
           => output.value > CalculateExactSimilarity(input.text1, c2)

\* the description is a selector that matches an element
SelectorHit(description, page) ==
  /\ LooksLikeSelector(description)
  /\ \E k \in 1..Len(page) : page[k].id # "" /\ page[k].id = IdOf(description)

\* C22: the sweep accepts a candidate only when its adjusted score exceeds
\* 0.15 and is strictly greater than the best so far, and stops at the first
\* candidate at or above 0.9; hence of the candidates with the adjusted score
\* of the returned one, the returned one is first in document order, and
\* nothing is returned when no candidate exceeds 0.15.
C22_SweepKeepsFirstInDomOrder ==
  (output.done /\ input.fn = "_findElementByDescriptionEnhanced"
     /\ ~SelectorHit(input.description, input.page))
    => LET page == input.page
           score(k) == AdjustedScore(input.description, page[k])
       IN /\ output.value # 0 => score(output.value) > AcceptThreshold
          /\ output.value # 0 =>
               \A k \in 1..Len(page) :
                 score(k) = score(output.value) => output.value <= k
          /\ (\A k \in 1..Len(page) : score(k) <= AcceptThreshold)
               => output.value = 0

====
